---------------------------- MODULE Spec2Model ----------------------------
(***************************************************************************)
(* A model of the skayn-ai trading agent: the decision cycle               *)
(* (makeAutonomousDecision), its timers and commands, the LN Markets       *)
(* client's position fetch, the risk gate and the panic workflow.          *)
(*                                                                         *)
(* Every await on an exchange call is a suspension point: the handler's    *)
(* position is kept in a task record (pc) and the call's return is its own *)
(* action, with the call's outcome chosen by the environment.              *)
(***************************************************************************)
EXTENDS Integers, Sequences, FiniteSets, TLC

(***************************************************************************)
(* Bounds of the model.                                                    *)
(***************************************************************************)
MaxPos == 2
MaxCycles == 2
MaxStarts == 1
MaxClock == 6
MaxConfirms == 2
MaxSyncs == 3
MaxArrivals == 1002
MaxPriceTicks == 4
MaxRequests == 4

(***************************************************************************)
(* Program constants.                                                      *)
(***************************************************************************)
PositionLimit == 3
RiskLevelMaxPositionSize == 2
RiskLevelMaxLeverage == 1
MaxDailyLoss == 50
MaxDrawdownPercentage == 10
RiskPerTrade == 2
PortfolioHeatLimit == 6
SatsPerBTC == 100000000
DefaultPrice == 116000
MinPositionUSD == 6
MaxPositionUSD == 100
DefaultBalance == 1000
DefaultLeverage == 1
MinHypertradingSats == 1000
PanicTimeoutMinutes == 5
MaxHistoryLength == 1000
RequiredSamples == 30
RsiPeriod == 14
TestingBalanceUSD == 50
TestingTradeLimit == 3
Lookback == 10
MinExtremumIndex == 5
MinApiInterval == 90
CacheMaxAge == 90
MaxCallsPerHour == 50
HourSeconds == 3600
TickSeconds == 30
Boot == 3600
Callers == 1..2

PosIds == 1..MaxPos
CycleIds == 1..MaxCycles
Balances == {0, 5000}
PLs == {0 - 30, 20}
Networks == {"testnet", "mainnet"}
Actions == {"BUY", "SELL", "HOLD"}

VARIABLES
  alive,            \* the agent's process has not exited
  network,          \* lnMarketsClient.config.network
  clientImpl,       \* which copy of the LN Markets client is wired in
  exPositions,      \* the exchange's own open positions (ground truth)
  nextId,           \* the id the exchange gives the next position
  clientPositions,  \* LNMarketsClient.positions
  mockPositions,    \* LNMarketsClient.mockPositions
  balance,          \* LNMarketsClient.balance
  dailyLoss,        \* RiskManager.dailyLoss
  peakBalance,      \* RiskManager.peakBalance
  isRunning,        \* agent.isRunning
  decisionInterval, \* agent.decisionInterval is armed
  commandInterval,  \* agent.commandInterval is armed
  initialTimeouts,  \* pending setTimeout(5000) first decisions
  moduleTimers,     \* risk monitor intervals armed by startModules
  starts,           \* how often start() armed the timers
  lastDecision,     \* state.lastDecision
  activePositions,  \* state.activePositions (the mirror)
  totalTrades,      \* state.performance.totalTrades
  panicRequest,     \* state.panicRequest
  now,              \* the clock, in minutes
  cmdFile,          \* contents of the .skayn-command file
  cyc,              \* the invocations of makeAutonomousDecision
  pan,              \* the invocation of executePanicClose
  cli,              \* history: the one-shot CLI invocations
  lastFetch,        \* history: the last direct getPositions call
  parked,           \* an invocation of executePanicClose suspended at an
                    \* await while another command is handled
  lastGate,         \* history: the last direct canOpenPosition call
  trades,           \* pnlTracker.trades, the closed trades on the books
  lastSync,         \* history: the last direct syncPositionTracking call
  priceHistory,     \* marketData.priceHistory
  currentPrice,     \* marketData.currentPrice (0 while there is none)
  lastSignal,       \* history: the last direct strategy evaluation
  lastDivergence,   \* history: the last direct divergence analysis
  priceService,     \* the PriceService singleton
  lastCommand,      \* history: the last handleCommand call
  currentStrategyType, \* agent.currentStrategyType
  dailyTrades,      \* RiskManager.dailyTrades
  strategyMetrics,  \* agent.state.strategyMetrics: signals per strategy
  signalHistory,    \* EnhancedTradingStrategy.signalHistory
  lastCall          \* history: the last direct call of a pure function

vars == <<alive, network, clientImpl, exPositions, nextId, clientPositions,
          mockPositions, balance, dailyLoss, peakBalance, isRunning,
          decisionInterval, commandInterval, initialTimeouts, moduleTimers,
          starts, lastDecision, activePositions, totalTrades, panicRequest,
          now, cmdFile, cyc, pan, cli, lastFetch, parked, lastGate, trades,
          lastSync, priceHistory, currentPrice, lastSignal, lastDivergence,
          priceService, lastCommand, currentStrategyType, dailyTrades,
          strategyMetrics, signalHistory, lastCall>>

exchangeVars == <<exPositions, nextId>>
clientVars == <<clientPositions, mockPositions, balance>>
riskVars == <<dailyLoss, peakBalance>>
timerVars == <<isRunning, decisionInterval, commandInterval, initialTimeouts,
               moduleTimers, starts>>
agentVars == <<lastDecision, activePositions, totalTrades, panicRequest>>
configVars == <<alive, network, clientImpl>>
analysisVars == <<currentStrategyType, dailyTrades, strategyMetrics,
                  signalHistory, lastCall>>
marketVars == <<priceHistory, currentPrice, lastSignal, lastDivergence>>
peripheryVars == <<marketVars, priceService, lastCommand>>
coreVars == <<configVars, analysisVars, exchangeVars, clientVars, riskVars, timerVars,
              agentVars, now, cmdFile, cyc, pan, cli, lastFetch, parked,
              lastGate, trades, lastSync>>

\* Everything but the analysis variables.
stateVars == <<configVars, exchangeVars, clientVars, riskVars, timerVars,
               agentVars, now, cmdFile, cyc, pan, cli, lastFetch, parked,
               lastGate, trades, lastSync, peripheryVars>>

Max(a, b) == IF a > b THEN a ELSE b
Min(a, b) == IF a < b THEN a ELSE b
Abs(a) == IF a < 0 THEN 0 - a ELSE a
CeilDiv(a, b) == (a + b - 1) \div b

(***************************************************************************)
(* Values of the agent's state.                                            *)
(***************************************************************************)
NoDecision == [action |-> "none", reason |-> "none"]
NoRequest == [set |-> FALSE, timestamp |-> 0]
NoRiskCheck == [allowed |-> FALSE, reason |-> "none", side |-> "none", size |-> 0]

DepositReason == "Deposit more funds"
TrackingFailureReason == "Position tracking failure - trading halted for safety"

\* An invocation of executePanicClose.  positions, idx, results and
\* successCount are its locals; outcome is what it returned; calls counts
\* the invocations; age, attempts, wasRunning and requestAfter are history:
\* the request's age at validation, the positions whose close was called,
\* whether the agent ran when the confirmation came, and whether a request
\* was still pending when the confirmation returned.
IdlePanic == [pc |-> "idle", positions |-> <<>>, idx |-> 0, results |-> <<>>,
              successCount |-> 0, outcome |-> "none", calls |-> 0,
              age |-> 0 - 1, attempts |-> <<>>, wasRunning |-> FALSE,
              requestAfter |-> FALSE]

\* The documented procedure, run as one-shot CLI invocations: when the
\* panic command stored its request, what confirm-panic answered and when.
\* A direct call of the client's getPositions: whether the exchange could
\* be reached, how the call ended and what it answered.
NoFetch == [called |-> FALSE, reachable |-> FALSE, outcome |-> "none",
            result |-> {}]

NoCli == [panicAt |-> 0 - 1, confirm |-> "none", confirmAt |-> 0 - 1]

\* A direct call of the risk manager's canOpenPosition: which copy of the
\* class ran, its arguments, the state it read, and what it answered.
NoGate == [called |-> FALSE, copy |-> "none", reachable |-> FALSE,
           fetched |-> {}, mirror |-> {}, quantity |-> 0, leverage |-> 0,
           loss |-> 0, bal |-> 0, peak |-> 0, allowed |-> FALSE,
           reason |-> "none"]

\* A direct call of syncPositionTracking: how many there were, the mirror
\* before this one, the list it was given, the closures and the new
\* positions it reported, whether it threw, and whether the call before it
\* was given the same list.
NoSync == [calls |-> 0, before |-> {}, fetched |-> {},
           closedExternally |-> {}, newPositions |-> {}, threw |-> FALSE,
           repeat |-> FALSE]

IdleCycle == [pc |-> "idle", action |-> "HOLD", size |-> 0,
              riskCheck |-> NoRiskCheck, posId |-> 0, fetchFailed |-> FALSE,
              orders |-> 0, mirrorWrites |-> 0]

\* A finished invocation: its locals are gone; what stays is whether its
\* position fetch failed.
Finished(r) == [IdleCycle EXCEPT !.pc = "done", !.fetchFailed = r.fetchFailed]

InFlight(c) == cyc[c].pc \notin {"idle", "done", "killed"}

\* stop() has run to its end and start() has not run since.
StopCompleted == starts > 0 /\ ~isRunning


(***************************************************************************)
(* LNMarketsClient.getPositions.  The REST call is tried twice; what the   *)
(* second failure does depends on the copy of the client: the current one  *)
(* throws, the legacy one answers with its mock positions.                 *)
(***************************************************************************)
GetPositionsOutcome(impl, ok) ==
  IF ok THEN "return"
  ELSE IF impl = "current" THEN "throw"
  ELSE "mock"

GetPositionsResult(outcome, ex, mock) ==
  IF outcome = "return" THEN ex ELSE mock

(***************************************************************************)
(* DepositManager.checkHypertradingEligibility / getDepositStatus.         *)
(* enforceResponsibleGambling never reports an emergency stop: it compares *)
(* totalPL = 0 with a balance field that getAccountBalance does not set.   *)
(***************************************************************************)
Eligible(net, bal) == net = "testnet" \/ bal >= MinHypertradingSats

ReadyToTrade(net, bal) == Eligible(net, bal)

(***************************************************************************)
(* RiskManager.calculatePositionSize, in satoshis of BTC.  The risk        *)
(* manager has no marketData, so the price is always the default.          *)
(***************************************************************************)
CalculatePositionSize(bal) ==
  LET balanceMicroUSD == bal * (DefaultPrice \div 100)
      riskMicroUSD == (balanceMicroUSD * RiskPerTrade) \div 100
      positionMicroUSD == Max(MinPositionUSD * 1000000,
                              Min(riskMicroUSD, MaxPositionUSD * 1000000))
  IN  positionMicroUSD \div (DefaultPrice \div 100)

(***************************************************************************)
(* RiskManager.calculateDrawdown: the new peak, and whether the drawdown   *)
(* from it exceeds the limit (0/0 is NaN, which exceeds nothing).          *)
(***************************************************************************)
NewPeak(peak, bal) == Max(peak, bal)

\* A faulty variant for comparison: the check rejects a small drawdown.
DrawdownInverted(peak, bal) ==
  LET p == NewPeak(peak, bal)
  IN  p > 0 /\ (p - bal) * 100 < MaxDrawdownPercentage * p

DrawdownExceeded(peak, bal) ==
  LET p == NewPeak(peak, bal)
  IN  p > 0 /\ (p - bal) * 100 > MaxDrawdownPercentage * p

(***************************************************************************)
(* RiskManager.calculatePortfolioHeat plus this trade's risk against the   *)
(* heat limit; totalQty is the sum of the positions' quantities.           *)
(***************************************************************************)
HeatExceeded(totalQty, bal) ==
  IF bal = 0 THEN totalQty > 0
  ELSE totalQty * RiskPerTrade > (PortfolioHeatLimit - RiskPerTrade) * bal

(***************************************************************************)
(* balance < requiredMargin + riskAmount, with the quantity in satoshis of *)
(* BTC and the balance an integer.                                         *)
(***************************************************************************)
InsufficientBalance(bal, qty, leverage) ==
  LET num == qty * (100 + RiskPerTrade * leverage)
      c1 == CeilDiv(num, 100 * leverage)
  IN  bal < CeilDiv(c1, SatsPerBTC)

(***************************************************************************)
(* RiskManager.canOpenPosition once the position list is in hand: the      *)
(* reason of the first failing check, in the code's order.                 *)
(***************************************************************************)
CanOpenReason(n, qty, leverage, loss, bal, peak, totalQty) ==
  IF n >= PositionLimit THEN "Position limit reached"
  ELSE IF qty > RiskLevelMaxPositionSize * SatsPerBTC THEN "Position size exceeds limit"
  ELSE IF leverage > RiskLevelMaxLeverage THEN "Leverage exceeds limit"
  ELSE IF Abs(loss) >= MaxDailyLoss THEN "Daily loss limit reached"
  ELSE IF InsufficientBalance(bal, qty, leverage) THEN "Insufficient balance"
  ELSE IF DrawdownExceeded(peak, bal) THEN "Drawdown limit exceeded"
  ELSE IF HeatExceeded(totalQty, bal) THEN "Portfolio heat limit exceeded"
  ELSE "All risk checks passed"

\* calculateDrawdown runs, and moves the peak, only when check 6 is reached
PeakAfterCanOpen(n, qty, leverage, loss, bal, peak, totalQty) ==
  IF CanOpenReason(n, qty, leverage, loss, bal, peak, totalQty)
       \in {"Drawdown limit exceeded", "Portfolio heat limit exceeded",
            "All risk checks passed"}
  THEN NewPeak(peak, bal) ELSE peak

\* the quantity the exchange reports for a position the agent opened
PositionQuantity == MinPositionUSD

TotalQuantity(ps) == Cardinality(ps) * PositionQuantity

CanOpenPosition(side, qty, ps) ==
  LET r == CanOpenReason(Cardinality(ps), qty, DefaultLeverage, dailyLoss,
                         balance, peakBalance, TotalQuantity(ps))
  IN  [allowed |-> r = "All risk checks passed", reason |-> r,
       side |-> side, size |-> qty]

RiskCheckError(side, qty) ==
  [allowed |-> FALSE, reason |-> "Risk check error", side |-> side, size |-> qty]

SideOf(action) == IF action = "BUY" THEN "buy" ELSE "sell"

(***************************************************************************)
(* openLong / openShort: the trade goes to the exchange only when the risk *)
(* check allows it.                                                        *)
(***************************************************************************)
\* A faulty variant for comparison: the verdict of the gate is ignored.
AlwaysAllowed(riskCheck) == TRUE

TradeAllowed(riskCheck) == riskCheck.allowed

(***************************************************************************)
(* synthesizeDecision: a non-HOLD signal is taken as it is; with a HOLD    *)
(* signal the testing and demo branches may still decide to trade.         *)
(***************************************************************************)
SynthesizeDecision(signal) ==
  IF signal # "HOLD" THEN {signal} ELSE Actions

(***************************************************************************)
(* syncPositionTracking: the mirror is replaced by the fetched list.       *)
(***************************************************************************)
\* A faulty variant for comparison: positions of the old mirror are kept.
MergedMirror(mirror, fetched) == mirror \cup fetched

SyncPositionTracking(mirror, fetched) == fetched

\* The positions the two detection loops compare: those of the previous
\* mirror that the new one lacks, and those of the new mirror that the
\* previous one lacked.
ClosedExternally(mirror, fetched) ==
  mirror \ SyncPositionTracking(mirror, fetched)

\* A faulty variant for comparison: every current position counts as new.
EveryPositionNew(mirror, fetched) == fetched

NewPositions(mirror, fetched) == fetched \ mirror

\* For a position closed externally the first loop calls
\* pnlTracker.recordTrade.  The PnLTracker class has recordPosition,
\* updatePositionPnL and closePosition but no recordTrade, so the call
\* throws a TypeError: the sync ends there, after the mirror was replaced.
RecordTradeDefined == FALSE

SyncThrows(mirror, fetched) ==
  ClosedExternally(mirror, fetched) # {} /\ ~RecordTradeDefined

(***************************************************************************)
(* The catch of the position sync in makeAutonomousDecision.               *)
(***************************************************************************)
\* A faulty variant for comparison: the failed fetch wipes the mirror.
ClearedMirror(mirror) == {}

MirrorOnSyncFailure(mirror) == mirror

DecisionOnSyncFailure == [action |-> "HOLD", reason |-> TrackingFailureReason]


(***************************************************************************)
(* The market data manager, the price service and the command interface    *)
(* before anything has happened.                                           *)
(***************************************************************************)
\* A direct evaluation of the active strategy followed by
\* synthesizeDecision: the strategy, the length of the price history, the
\* signal and the decision.
NoSignal == [called |-> FALSE, strategy |-> "none", samples |-> 0,
             signal |-> "none", decision |-> "none"]

\* A direct divergence analysis: the analyser, the price and oscillator
\* windows it was given and what it reported.
NoDivergence == [called |-> FALSE, analyser |-> "none", prices |-> <<>>,
                 oscillator |-> <<>>, type |-> "none"]

\* A caller of PriceService.getBitcoinPrice: where its call stands, the
\* Date.now() it took on entry, and how its last call was answered.
IdleCaller == [pc |-> "idle", at |-> 0, answer |-> "none"]

\* The PriceService singleton: lastApiCall, apiCallHistory, whether a price
\* is cached and since when (all times in seconds); with them the wall
\* clock, the times at which requests went out to a price API, and the
\* callers.
IdleService == [clock |-> Boot, lastApiCall |-> 0, apiCallHistory |-> <<>>,
                cached |-> FALSE, cacheTime |-> 0, requests |-> <<>>,
                callers |-> [k \in Callers |-> IdleCaller]]

\* A handleCommand call: the command, where the call stands, how it ended,
\* and the positions the close-all loop goes through.
NoCommand == [command |-> "none", pc |-> "idle", ended |-> "none",
              positions |-> <<>>, idx |-> 0]

\* The constructor's strategy selector, the risk manager's trade counter,
\* and no direct call yet.
NoCall == [fn |-> "none"]

InitAnalysis ==
  /\ currentStrategyType = "basic"
  /\ dailyTrades = 0
  /\ strategyMetrics = [basic |-> 0, enhanced |-> 0]
  /\ signalHistory = <<>>
  /\ lastCall = NoCall

InitPeriphery ==
  /\ priceHistory = <<>>
  /\ currentPrice = 0
  /\ lastSignal = NoSignal
  /\ lastDivergence = NoDivergence
  /\ priceService = IdleService
  /\ lastCommand = NoCommand
  /\ InitAnalysis

(***************************************************************************)
(* The initial state: a freshly constructed agent, client and risk         *)
(* manager, against an exchange account that may already hold positions.   *)
(***************************************************************************)
InitCore ==
  /\ alive = TRUE
  /\ isRunning = FALSE
  /\ decisionInterval = FALSE
  /\ commandInterval = FALSE
  /\ initialTimeouts = 0
  /\ moduleTimers = 0
  /\ starts = 0
  /\ lastDecision = NoDecision
  /\ activePositions = {}
  /\ totalTrades = 0
  /\ panicRequest = NoRequest
  /\ clientPositions = {}
  /\ mockPositions = {}
  /\ dailyLoss = 0
  /\ peakBalance = 0
  /\ now = 0
  /\ cmdFile = "none"
  /\ cyc = [c \in CycleIds |-> IdleCycle]
  /\ pan = IdlePanic
  /\ cli = NoCli
  /\ lastFetch = NoFetch
  /\ parked = IdlePanic
  /\ lastGate = NoGate
  /\ trades = <<>>
  /\ lastSync = NoSync

InitAgent ==
  /\ InitCore
  /\ InitPeriphery

(***************************************************************************)
(* makeAutonomousDecision, from its three callers: the interval timer of   *)
(* startAutonomousMode, its one-shot first decision, and the               *)
(* force-decision command.  It runs up to its first await.                 *)
(***************************************************************************)
CanBegin(c) ==
  /\ alive
  /\ cyc[c].pc = "idle"
  /\ \A d \in CycleIds : d < c => cyc[d].pc # "idle"

Begin(c) == cyc' = [cyc EXCEPT ![c].pc = "deposit"]

TimerTick(c) ==
  /\ CanBegin(c)
  /\ decisionInterval
  /\ Begin(c)
  /\ UNCHANGED <<configVars, analysisVars, exchangeVars, clientVars, riskVars, timerVars,
                 agentVars, now, cmdFile, pan, cli, lastFetch, parked,
                 lastGate, trades, lastSync,
                 peripheryVars>>

InitialTick(c) ==
  /\ CanBegin(c)
  /\ initialTimeouts > 0
  /\ initialTimeouts' = initialTimeouts - 1
  /\ Begin(c)
  /\ UNCHANGED <<configVars, analysisVars, exchangeVars, clientVars, riskVars, isRunning,
                 decisionInterval, commandInterval, moduleTimers, starts,
                 agentVars, now, cmdFile, pan, cli, lastFetch, parked,
                 lastGate, trades, lastSync,
                 peripheryVars>>

ForceDecision(c) ==
  /\ CanBegin(c)
  /\ pan.pc = "idle"
  /\ Begin(c)
  /\ UNCHANGED <<configVars, analysisVars, exchangeVars, clientVars, riskVars, timerVars,
                 agentVars, now, cmdFile, pan, cli, lastFetch, parked,
                 lastGate, trades, lastSync,
                 peripheryVars>>

(***************************************************************************)
(* Step 0: the deposit and responsible-gambling checks.  When they pass    *)
(* the cycle calls getPositions for the position sync.                     *)
(***************************************************************************)
CycleDeposit(c) ==
  /\ alive
  /\ cyc[c].pc = "deposit"
  /\ IF ReadyToTrade(network, balance)
     THEN /\ cyc' = [cyc EXCEPT ![c].pc = "sync"]
          /\ UNCHANGED lastDecision
     ELSE /\ cyc' = [cyc EXCEPT ![c] = Finished(@)]
          /\ lastDecision' = [action |-> "HOLD", reason |-> DepositReason]
  /\ UNCHANGED <<configVars, analysisVars, exchangeVars, clientVars, riskVars, timerVars,
                 activePositions, totalTrades, panicRequest, now, cmdFile,
                 pan, cli, lastFetch, parked,
                 lastGate, trades, lastSync,
                 peripheryVars>>

(***************************************************************************)
(* Step 0.5: getPositions returns to the position sync.  On success the    *)
(* mirror is reconciled and assessRisk calls getPositions again; on        *)
(* failure the cycle holds.  A sync that throws lands in the same catch    *)
(* as a failed fetch, with the mirror already replaced.                    *)
(***************************************************************************)
CycleSync(c) ==
  /\ alive
  /\ cyc[c].pc = "sync"
  /\ \E ok \in BOOLEAN :
       LET out == GetPositionsOutcome(clientImpl, ok)
           got == GetPositionsResult(out, exPositions, mockPositions)
       IN  IF out = "throw"
           THEN /\ activePositions' = MirrorOnSyncFailure(activePositions)
                /\ lastDecision' = DecisionOnSyncFailure
                /\ cyc' = [cyc EXCEPT ![c] =
                            Finished([@ EXCEPT !.fetchFailed = TRUE])]
                /\ UNCHANGED clientPositions
           ELSE /\ clientPositions' = got
                /\ activePositions' = SyncPositionTracking(activePositions, got)
                /\ IF SyncThrows(activePositions, got)
                   THEN /\ lastDecision' = DecisionOnSyncFailure
                        /\ cyc' = [cyc EXCEPT ![c] = Finished(@)]
                   ELSE /\ cyc' = [cyc EXCEPT ![c].pc = "assess",
                                             ![c].mirrorWrites = @ + 1]
                        /\ UNCHANGED lastDecision
  /\ UNCHANGED <<configVars, analysisVars, exchangeVars, mockPositions, balance, riskVars,
                 timerVars, totalTrades, panicRequest, now, cmdFile, pan, cli, lastFetch, parked,
                 lastGate, trades, lastSync,
                 peripheryVars>>

(***************************************************************************)
(* assessRisk's getPositions returns.  getRiskMetrics moves the drawdown   *)
(* peak; the strategy's signal goes through synthesizeDecision; a HOLD is  *)
(* recorded at once, a trade goes to executeDecision, whose                *)
(* openLong/openShort asks the risk manager, which calls getPositions.     *)
(* A throw here lands in the cycle's outer catch, which records nothing.   *)
(***************************************************************************)
CycleAssess(c) ==
  /\ alive
  /\ cyc[c].pc = "assess"
  /\ \E ok \in BOOLEAN :
       LET out == GetPositionsOutcome(clientImpl, ok)
           got == GetPositionsResult(out, exPositions, mockPositions)
       IN  IF out = "throw"
           THEN /\ cyc' = [cyc EXCEPT ![c] = Finished(@)]
                /\ UNCHANGED <<clientPositions, peakBalance, lastDecision>>
           ELSE /\ clientPositions' = got
                /\ peakBalance' = NewPeak(peakBalance, balance)
                /\ \E sig \in Actions : \E a \in SynthesizeDecision(sig) :
                     IF a = "HOLD"
                     THEN /\ cyc' = [cyc EXCEPT ![c] = Finished(@)]
                          /\ lastDecision' = [action |-> a, reason |-> "decision"]
                     ELSE /\ cyc' = [cyc EXCEPT ![c].pc = "gate",
                                       ![c].action = a,
                                       ![c].size = CalculatePositionSize(
                                          IF balance = 0 THEN DefaultBalance
                                          ELSE balance)]
                          /\ UNCHANGED lastDecision
  /\ UNCHANGED <<configVars, analysisVars, exchangeVars, mockPositions, balance, dailyLoss,
                 timerVars, activePositions, totalTrades, panicRequest, now,
                 cmdFile, pan, cli, lastFetch, parked,
                 lastGate, trades, lastSync,
                 peripheryVars>>

(***************************************************************************)
(* canOpenPosition's getPositions returns.  A rejected trade (or a failed  *)
(* risk check) makes openLong/openShort return null; executeDecision       *)
(* counts the trade all the same and the decision is recorded.  An allowed *)
(* trade is sent to the exchange.                                          *)
(***************************************************************************)
CycleGate(c) ==
  /\ alive
  /\ cyc[c].pc = "gate"
  /\ \E ok \in BOOLEAN :
       LET out == GetPositionsOutcome(clientImpl, ok)
           got == GetPositionsResult(out, exPositions, mockPositions)
           side == SideOf(cyc[c].action)
           check == IF out = "throw" THEN RiskCheckError(side, cyc[c].size)
                    ELSE CanOpenPosition(side, cyc[c].size, got)
       IN  /\ clientPositions' = IF out = "throw" THEN clientPositions ELSE got
           /\ peakBalance' =
                IF out = "throw" THEN peakBalance
                ELSE PeakAfterCanOpen(Cardinality(got), cyc[c].size,
                                      DefaultLeverage, dailyLoss, balance,
                                      peakBalance, TotalQuantity(got))
           /\ IF TradeAllowed(check)
              THEN /\ cyc' = [cyc EXCEPT ![c].pc = "open",
                                ![c].riskCheck = check,
                                ![c].orders = @ + 1]
                   /\ UNCHANGED <<lastDecision, totalTrades>>
              ELSE /\ cyc' = [cyc EXCEPT ![c] =
                                Finished([@ EXCEPT !.riskCheck = check])]
                   /\ totalTrades' = totalTrades + 1
                   /\ lastDecision' = [action |-> cyc[c].action,
                                       reason |-> "decision"]
  /\ UNCHANGED <<configVars, analysisVars, exchangeVars, mockPositions, balance, dailyLoss,
                 timerVars, activePositions, panicRequest, now, cmdFile, pan,
                 cli, lastFetch, parked,
                 lastGate, trades, lastSync,
                 peripheryVars>>

(***************************************************************************)
(* LNMarketsClient.openPosition: futuresNewTrade returns.  The current     *)
(* client throws on failure (executeDecision's catch reports the failure   *)
(* and the decision is still recorded); the legacy client fabricates a     *)
(* mock position.  On success the exchange holds a new position and the    *)
(* client awaits updateBalance.                                            *)
(***************************************************************************)
\* A faulty variant for comparison: a failed order is answered with a
\* fabricated position whichever client is in use.
MockOnFailure(impl, ok) == IF ok THEN "return" ELSE "mock"

OpenPositionOutcome(impl, ok) ==
  IF ok THEN "return" ELSE IF impl = "current" THEN "throw" ELSE "mock"

CycleOpen(c) ==
  /\ alive
  /\ cyc[c].pc = "open"
  /\ \E ok \in BOOLEAN :
       LET out == OpenPositionOutcome(clientImpl, ok)
       IN  /\ ok => nextId <= MaxPos
           /\ CASE out = "throw" ->
                     /\ cyc' = [cyc EXCEPT ![c] = Finished(@)]
                     /\ lastDecision' = [action |-> cyc[c].action, reason |-> "decision"]
                     /\ UNCHANGED <<exchangeVars, clientPositions, mockPositions>>
                [] out = "mock" ->
                     /\ cyc' = [cyc EXCEPT ![c].pc = "balance", ![c].posId = 0]
                     /\ clientPositions' = clientPositions \cup {0}
                     /\ mockPositions' = mockPositions \cup {0}
                     /\ UNCHANGED <<exchangeVars, lastDecision>>
                [] OTHER ->
                     /\ exPositions' = exPositions \cup {nextId}
                     /\ nextId' = nextId + 1
                     /\ clientPositions' = clientPositions \cup {nextId}
                     /\ mockPositions' = mockPositions \cup {nextId}
                     /\ cyc' = [cyc EXCEPT ![c].pc = "balance", ![c].posId = nextId]
                     /\ UNCHANGED lastDecision
  /\ UNCHANGED <<configVars, analysisVars, balance, riskVars, timerVars, activePositions,
                 totalTrades, panicRequest, now, cmdFile, pan, cli, lastFetch, parked,
                 lastGate, trades, lastSync,
                 peripheryVars>>

(***************************************************************************)
(* updateBalance returns (its errors are swallowed): the trade module      *)
(* records the position in the mirror, executeDecision counts the trade    *)
(* and the cycle records its decision.                                     *)
(***************************************************************************)
CycleBalance(c) ==
  /\ alive
  /\ cyc[c].pc = "balance"
  /\ \E b \in Balances :
       /\ balance' = b
       /\ activePositions' = activePositions \cup {cyc[c].posId}
       /\ totalTrades' = totalTrades + 1
       /\ lastDecision' = [action |-> cyc[c].action, reason |-> "decision"]
       /\ cyc' = [cyc EXCEPT ![c] = Finished(@)]
  /\ UNCHANGED <<configVars, analysisVars, exchangeVars, clientPositions, mockPositions,
                 riskVars, timerVars, panicRequest, now, cmdFile, pan, cli, lastFetch, parked,
                 lastGate, trades, lastSync,
                 peripheryVars>>

(***************************************************************************)
(* start(): arms the decision interval, the one-shot first decision, the   *)
(* module intervals and the command listener.                              *)
(***************************************************************************)
Start ==
  /\ alive
  /\ ~isRunning
  /\ starts < MaxStarts
  /\ pan.pc = "idle"
  /\ isRunning' = TRUE
  /\ decisionInterval' = TRUE
  /\ initialTimeouts' = initialTimeouts + 1
  /\ moduleTimers' = moduleTimers + 1
  /\ commandInterval' = TRUE
  /\ starts' = starts + 1
  /\ UNCHANGED <<configVars, analysisVars, exchangeVars, clientVars, riskVars, agentVars,
                 now, cmdFile, cyc, pan, cli, lastFetch, parked,
                 lastGate, trades, lastSync,
                 peripheryVars>>

(***************************************************************************)
(* stop(): clears the decision interval and the command listener.  It      *)
(* neither waits for a cycle that is suspended at an await nor clears the  *)
(* one-shot first decision or the module intervals (stopModules is empty). *)
(***************************************************************************)
\* A faulty variant for comparison: stop() leaves the running flag alone.
StaysRunning(running) == running

RunningAfterStop(running) == FALSE

Stop ==
  /\ alive
  /\ isRunning
  /\ pan.pc = "idle"
  /\ isRunning' = RunningAfterStop(isRunning)
  /\ decisionInterval' = FALSE
  /\ commandInterval' = FALSE
  /\ UNCHANGED <<configVars, analysisVars, exchangeVars, clientVars, riskVars,
                 initialTimeouts, moduleTimers, starts, agentVars, now,
                 cmdFile, cyc, pan, cli, lastFetch, parked,
                 lastGate, trades, lastSync,
                 peripheryVars>>

(***************************************************************************)
(* The user drops a command into the .skayn-command file.                  *)
(***************************************************************************)
FileCommands == {"status", "stop", "panic"}

WriteCommand(cmd) ==
  /\ alive
  /\ cmdFile = "none"
  /\ cmdFile' = cmd
  /\ UNCHANGED <<configVars, analysisVars, exchangeVars, clientVars, riskVars, timerVars,
                 agentVars, now, cyc, pan, cli, lastFetch, parked,
                 lastGate, trades, lastSync,
                 peripheryVars>>

(***************************************************************************)
(* checkForCommands, the command listener's callback: 'status' logs and    *)
(* removes the file; 'stop' and 'panic' call stop() and exit the process,  *)
(* which abandons every cycle that is suspended at an await.               *)
(***************************************************************************)
CheckForCommands ==
  /\ alive
  /\ commandInterval
  /\ cmdFile # "none"
  /\ IF cmdFile = "status"
     THEN /\ cmdFile' = "none"
          /\ UNCHANGED <<alive, isRunning, decisionInterval, commandInterval,
                         cyc>>
     ELSE /\ isRunning' = RunningAfterStop(isRunning)
          /\ decisionInterval' = FALSE
          /\ commandInterval' = FALSE
          /\ alive' = FALSE
          /\ cyc' = [c \in CycleIds |->
                       IF InFlight(c) THEN [Finished(cyc[c]) EXCEPT !.pc = "killed"]
                       ELSE cyc[c]]
          /\ UNCHANGED cmdFile
  /\ UNCHANGED <<network, clientImpl, analysisVars, exchangeVars, clientVars,
                 riskVars,
                 initialTimeouts, moduleTimers, starts, agentVars, now, pan,
                 cli, lastFetch, parked,
                 lastGate, trades, lastSync,
                 peripheryVars>>


(***************************************************************************)
(* The agent with its decision loop and its lifecycle commands, on an      *)
(* account that holds no position yet.                                     *)
(***************************************************************************)
Init ==
  /\ InitAgent
  /\ clientImpl = "current"
  /\ network \in Networks
  /\ balance \in Balances
  /\ exPositions = {}
  /\ nextId = 1

Next ==
  \/ Start
  \/ Stop
  \/ \E cmd \in FileCommands : WriteCommand(cmd)
  \/ CheckForCommands
  \/ \E c \in CycleIds : TimerTick(c)
  \/ \E c \in CycleIds : InitialTick(c)
  \/ \E c \in CycleIds : ForceDecision(c)
  \/ \E c \in CycleIds : CycleDeposit(c)
  \/ \E c \in CycleIds : CycleSync(c)
  \/ \E c \in CycleIds : CycleAssess(c)
  \/ \E c \in CycleIds : CycleGate(c)
  \/ \E c \in CycleIds : CycleOpen(c)
  \/ \E c \in CycleIds : CycleBalance(c)

Spec == Init /\ [][Next]_vars


(***************************************************************************)
(* The clock advances by a minute.                                         *)
(***************************************************************************)
Tick ==
  /\ now < MaxClock
  /\ now' = now + 1
  /\ UNCHANGED <<configVars, analysisVars, exchangeVars, clientVars, riskVars, timerVars,
                 agentVars, cmdFile, cyc, pan, cli, lastFetch, parked,
                 lastGate, trades, lastSync,
                 peripheryVars>>

(***************************************************************************)
(* handlePanicButton: with no open position it answers that all is safe    *)
(* and stores nothing; otherwise it stores the request with its timestamp. *)
(* A failed fetch is answered with an error.                               *)
(***************************************************************************)
RequestAfterPanic(request, got, t) ==
  IF got = {} THEN request ELSE [set |-> TRUE, timestamp |-> t]

HandlePanic ==
  /\ alive
  /\ pan.pc = "idle"
  /\ \E ok \in BOOLEAN :
       LET out == GetPositionsOutcome(clientImpl, ok)
           got == GetPositionsResult(out, exPositions, mockPositions)
       IN  IF out = "throw"
           THEN UNCHANGED <<clientPositions, panicRequest>>
           ELSE /\ clientPositions' = got
                /\ panicRequest' = RequestAfterPanic(panicRequest, got, now)
  /\ UNCHANGED <<configVars, analysisVars, exchangeVars, mockPositions, balance, riskVars,
                 timerVars, lastDecision, activePositions, totalTrades, now,
                 cmdFile, cyc, pan, cli, lastFetch, parked,
                 lastGate, trades, lastSync,
                 peripheryVars>>

(***************************************************************************)
(* executePanicClose up to its first await: the request is validated.      *)
(***************************************************************************)
\* A faulty variant for comparison: the absence of a request goes unnoticed.
ValidationIgnoringAbsence(request, t) ==
  IF t - request.timestamp > PanicTimeoutMinutes THEN "expired" ELSE "valid"

PanicValidation(request, t) ==
  IF ~request.set THEN "not-found"
  ELSE IF t - request.timestamp > PanicTimeoutMinutes THEN "expired"
  ELSE "valid"

RequestAge(request, t) == IF request.set THEN t - request.timestamp ELSE 0 - 1

ConfirmPanic ==
  /\ alive
  /\ pan.pc = "idle"
  /\ pan.calls < MaxConfirms
  /\ LET v == PanicValidation(panicRequest, now)
         begun == [IdlePanic EXCEPT !.calls = pan.calls + 1,
                                    !.age = RequestAge(panicRequest, now),
                                    !.wasRunning = isRunning]
     IN  CASE v = "not-found" ->
                /\ pan' = [begun EXCEPT !.outcome = "not-found"]
                /\ UNCHANGED panicRequest
           [] v = "expired" ->
                /\ pan' = [begun EXCEPT !.outcome = "expired"]
                /\ panicRequest' = NoRequest
           [] OTHER ->
                /\ pan' = [begun EXCEPT !.pc = "fetch"]
                /\ UNCHANGED panicRequest
  /\ UNCHANGED <<configVars, analysisVars, exchangeVars, clientVars, riskVars, timerVars,
                 lastDecision, activePositions, totalTrades, now, cmdFile,
                 cyc, cli, lastFetch, parked,
                 lastGate, trades, lastSync,
                 peripheryVars>>

(***************************************************************************)
(* The positions, in the order the exchange lists them.                    *)
(***************************************************************************)
RECURSIVE SetToSeq(_)
SetToSeq(S) ==
  IF S = {} THEN <<>>
  ELSE LET m == CHOOSE x \in S : \A y \in S : x <= y
       IN  <<m>> \o SetToSeq(S \ {m})

(***************************************************************************)
(* The for-of loop over the fetched positions goes on to the next position *)
(* whatever the last close attempt's status was.                           *)
(***************************************************************************)
\* A faulty variant for comparison: the loop ends at the first failed close.
LoopStopsOnFailure(status, idx, n) == idx < n /\ status = "CLOSED"

LoopContinues(status, idx, n) == idx < n

\* The loop's step after position idx got its status: the next position,
\* or the end of executePanicClose, which clears the request.
AfterAttempt(p, status) ==
  LET q == [p EXCEPT !.results = Append(@, status),
                     !.successCount = IF status = "CLOSED" THEN @ + 1 ELSE @]
  IN  IF LoopContinues(status, p.idx, Len(p.positions))
      THEN [q EXCEPT !.pc = "close", !.idx = @ + 1,
                     !.attempts = Append(@, p.positions[p.idx + 1])]
      ELSE [q EXCEPT !.pc = "idle", !.outcome = "executed"]

(***************************************************************************)
(* getPositions returns to executePanicClose.  A throw lands in the outer  *)
(* catch: the confirmation fails, the agent keeps running and the request  *)
(* stays.  Otherwise the agent is stopped if it ran, and the close loop    *)
(* begins; with no position the request is cleared at once.                *)
(***************************************************************************)
PanicFetch ==
  /\ alive
  /\ pan.pc = "fetch"
  /\ \E ok \in BOOLEAN :
       LET out == GetPositionsOutcome(clientImpl, ok)
           got == GetPositionsResult(out, exPositions, mockPositions)
           positions == SetToSeq(got)
       IN  IF out = "throw"
           THEN /\ pan' = [pan EXCEPT !.pc = "idle", !.outcome = "failed",
                                      !.requestAfter = panicRequest.set]
                /\ UNCHANGED <<clientPositions, isRunning, decisionInterval,
                               commandInterval, panicRequest>>
           ELSE /\ clientPositions' = got
                /\ isRunning' = IF isRunning THEN RunningAfterStop(isRunning)
                                ELSE isRunning
                /\ decisionInterval' = IF isRunning THEN FALSE ELSE decisionInterval
                /\ commandInterval' = IF isRunning THEN FALSE ELSE commandInterval
                /\ IF positions = <<>>
                   THEN /\ pan' = [pan EXCEPT !.pc = "idle", !.outcome = "executed"]
                        /\ panicRequest' = NoRequest
                   ELSE /\ pan' = [pan EXCEPT !.pc = "close", !.idx = 1,
                                              !.positions = positions,
                                              !.attempts = <<positions[1]>>]
                        /\ UNCHANGED panicRequest
  /\ UNCHANGED <<configVars, analysisVars, exchangeVars, mockPositions, balance, riskVars,
                 initialTimeouts, moduleTimers, starts, lastDecision,
                 activePositions, totalTrades, now, cmdFile, cyc, cli, lastFetch, parked,
                 lastGate, trades, lastSync,
                 peripheryVars>>

(***************************************************************************)
(* The client's futuresCloseTrade returns to the trade module's            *)
(* closePosition.  A position the client does not *)
(* know, or a close the exchange refuses, throws: the loop records FAILED  *)
(* and goes on.  On success the exchange and the client drop the position  *)
(* and the client awaits updateBalance.                                    *)
(***************************************************************************)
PanicClose ==
  /\ alive
  /\ pan.pc = "close"
  /\ LET id == pan.positions[pan.idx]
     IN  \E ok \in BOOLEAN :
           IF ok /\ id \in clientPositions /\ id \in exPositions
           THEN /\ exPositions' = exPositions \ {id}
                /\ clientPositions' = clientPositions \ {id}
                /\ pan' = [pan EXCEPT !.pc = "closeBalance"]
                /\ UNCHANGED panicRequest
           ELSE /\ pan' = AfterAttempt(pan, "FAILED")
                /\ panicRequest' = IF pan'.pc = "idle" THEN NoRequest
                                   ELSE panicRequest
                /\ UNCHANGED <<exPositions, clientPositions>>
  /\ UNCHANGED <<configVars, analysisVars, nextId, mockPositions, balance, riskVars,
                 timerVars, lastDecision, activePositions, totalTrades, now,
                 cmdFile, cyc, cli, lastFetch, parked,
                 lastGate, trades, lastSync,
                 peripheryVars>>

(***************************************************************************)
(* updateBalance returns: the trade module books the result (the risk      *)
(* manager adds a loss to the daily loss), drops the position from the     *)
(* mirror, and the loop records CLOSED and goes on.                        *)
(***************************************************************************)
\* A faulty variant for comparison: a profit is set off against the loss.
NetDailyResult(loss, pl) == loss + pl

DailyLossAfter(loss, pl) == IF pl < 0 THEN loss + pl ELSE loss

DailyTradesAfter(count, pl) == IF pl # 0 THEN count + 1 ELSE count

PanicCloseBalance ==
  /\ alive
  /\ pan.pc = "closeBalance"
  /\ \E b \in Balances, pl \in PLs :
       /\ balance' = b
       /\ dailyLoss' = DailyLossAfter(dailyLoss, pl)
       /\ dailyTrades' = DailyTradesAfter(dailyTrades, pl)
  /\ activePositions' = activePositions \ {pan.positions[pan.idx]}
  /\ pan' = AfterAttempt(pan, "CLOSED")
  /\ panicRequest' = IF pan'.pc = "idle" THEN NoRequest ELSE panicRequest
  /\ UNCHANGED <<configVars, currentStrategyType, strategyMetrics, signalHistory, lastCall, exchangeVars, clientPositions, mockPositions,
                 peakBalance, timerVars, lastDecision, totalTrades, now,
                 cmdFile, cyc, cli, lastFetch, parked,
                 lastGate, trades, lastSync,
                 peripheryVars>>

(***************************************************************************)
(* The one-shot CLI: every invocation builds a new agent (initializeAgent) *)
(* whose state is the constructor's, runs one command and exits.           *)
(***************************************************************************)
FreshAgentRequest == NoRequest

\* ./skayn panic: handlePanicButton on a new agent.  The request it stores
\* lives in that process.
CliPanic ==
  /\ cli.panicAt < 0
  /\ \E ok \in BOOLEAN :
       LET out == GetPositionsOutcome(clientImpl, ok)
           got == GetPositionsResult(out, exPositions, {})
           request == IF out = "throw" THEN FreshAgentRequest
                      ELSE RequestAfterPanic(FreshAgentRequest, got, now)
       IN  cli' = IF request.set THEN [cli EXCEPT !.panicAt = now] ELSE cli
  /\ UNCHANGED <<configVars, analysisVars, exchangeVars, clientVars, riskVars, timerVars,
                 agentVars, now, cmdFile, cyc, pan, lastFetch, parked,
                 lastGate, trades, lastSync,
                 peripheryVars>>

\* ./skayn confirm-panic: executePanicClose on a new agent.  Were the
\* request valid, each position's close would succeed or fail.
CliConfirmPanic ==
  /\ cli.panicAt >= 0
  /\ cli.confirm = "none"
  /\ LET v == PanicValidation(FreshAgentRequest, now)
     IN  IF v = "valid"
         THEN /\ \E left \in SUBSET exPositions : exPositions' = left
              /\ cli' = [cli EXCEPT !.confirm = "executed", !.confirmAt = now]
         ELSE /\ cli' = [cli EXCEPT !.confirm = v, !.confirmAt = now]
              /\ UNCHANGED exPositions
  /\ UNCHANGED <<configVars, analysisVars, nextId, clientVars, riskVars, timerVars,
                 agentVars, now, cmdFile, cyc, pan, lastFetch, parked,
                 lastGate, trades, lastSync,
                 peripheryVars>>

(***************************************************************************)
(* The panic workflow: an agent that may be running, the panic and         *)
(* confirm-panic commands it handles one at a time, the clock, and the     *)
(* same two commands run as one-shot CLI invocations.                      *)
(***************************************************************************)
InitPanic ==
  /\ InitAgent
  /\ clientImpl = "current"
  /\ network = "testnet"
  /\ balance \in Balances
  /\ \E k \in 0..MaxPos :
       /\ exPositions = 1..k
       /\ nextId = k + 1

NextPanic ==
  \/ Start
  \/ Tick
  \/ HandlePanic
  \/ ConfirmPanic
  \/ PanicFetch
  \/ PanicClose
  \/ PanicCloseBalance

SpecPanic == InitPanic /\ [][NextPanic]_vars

(***************************************************************************)
(* The documented emergency procedure, run from the shell.                 *)
(***************************************************************************)
NextCli ==
  \/ Tick
  \/ CliPanic
  \/ CliConfirmPanic

SpecCli == InitPanic /\ [][NextCli]_vars

(***************************************************************************)
(* The exchange client on its own: getPositions called directly, against   *)
(* an exchange that may be unreachable and that may close positions.       *)
(* Both REST attempts of a call fail exactly when the exchange cannot be   *)
(* reached.                                                                *)
(***************************************************************************)
ClientGetPositions ==
  /\ \E first \in BOOLEAN, second \in BOOLEAN :
       LET reachable == first \/ second
           out == GetPositionsOutcome(clientImpl, reachable)
           got == GetPositionsResult(out, exPositions, mockPositions)
       IN  /\ lastFetch' = [called |-> TRUE, reachable |-> reachable,
                            outcome |-> out,
                            result |-> IF out = "throw" THEN {} ELSE got]
           /\ clientPositions' = IF out = "throw" THEN clientPositions ELSE got
  /\ UNCHANGED <<configVars, analysisVars, exchangeVars, mockPositions, balance, riskVars,
                 timerVars, agentVars, now, cmdFile, cyc, pan, cli, parked,
                 lastGate, trades, lastSync,
                 peripheryVars>>

ExchangeCloses(id) ==
  /\ id \in exPositions
  /\ exPositions' = exPositions \ {id}
  /\ UNCHANGED <<configVars, analysisVars, nextId, clientVars, riskVars, timerVars,
                 agentVars, now, cmdFile, cyc, pan, cli, lastFetch, parked,
                 lastGate, trades, lastSync,
                 peripheryVars>>

InitClient ==

  /\ alive = TRUE
  /\ network = "testnet"
  /\ clientImpl \in {"current", "legacy"}
  /\ exPositions \in SUBSET PosIds
  /\ nextId = MaxPos + 1
  /\ clientPositions = {}
  /\ mockPositions \in SUBSET PosIds
  /\ balance = 0
  /\ dailyLoss = 0
  /\ peakBalance = 0
  /\ isRunning = FALSE
  /\ decisionInterval = FALSE
  /\ commandInterval = FALSE
  /\ initialTimeouts = 0
  /\ moduleTimers = 0
  /\ starts = 0
  /\ lastDecision = NoDecision
  /\ activePositions = {}
  /\ totalTrades = 0
  /\ panicRequest = NoRequest
  /\ now = 0
  /\ cmdFile = "none"
  /\ cyc = [c \in CycleIds |-> IdleCycle]
  /\ pan = IdlePanic
  /\ cli = NoCli
  /\ lastFetch = NoFetch
  /\ parked = IdlePanic
  /\ lastGate = NoGate
  /\ trades = <<>>
  /\ lastSync = NoSync
  /\ InitPeriphery

NextClient ==
  \/ ClientGetPositions
  \/ \E id \in PosIds : ExchangeCloses(id)

SpecClient == InitClient /\ [][NextClient]_vars


(***************************************************************************)
(*                              Properties                                 *)
(***************************************************************************)
Busy == pan.pc \in {"close", "closeBalance"}

CountOf(seq, status) == Cardinality({i \in 1..Len(seq) : seq[i] = status})

GateApproves(c) ==
  CanOpenPosition(SideOf(cyc[c].action), cyc[c].size, exPositions).allowed

(***************************************************************************)
(* C1.  When the position fetch at the start of a decision cycle fails,    *)
(* that cycle has placed and places no order, sets lastDecision to HOLD    *)
(* with the position-tracking-failure reason, has not written the mirror   *)
(* and leaves it as it is, and is over.                                    *)
(***************************************************************************)
C1_FetchFailureHolds ==
  /\ [](\A c \in CycleIds : cyc[c].fetchFailed => cyc[c].pc \in {"done"})
  /\ [][\A c \in CycleIds :
          (~cyc[c].fetchFailed /\ cyc'[c].fetchFailed) =>
            /\ cyc[c].pc = "sync"
            /\ cyc[c].orders = 0 /\ cyc'[c].orders = 0
            /\ cyc[c].mirrorWrites = 0
            /\ activePositions' = activePositions
            /\ lastDecision' = [action |-> "HOLD",
                                reason |-> TrackingFailureReason]]_vars

C1_Witness ==
  \E c \in CycleIds :
    /\ cyc[c].fetchFailed
    /\ activePositions # {}
    /\ lastDecision.reason = TrackingFailureReason

(***************************************************************************)
(* C3.  An order is sent to the exchange only by a cycle whose risk gate   *)
(* has just approved the trade, and the order carries the side and size    *)
(* the gate approved; a cycle whose trade the gate rejects sends no order. *)
(***************************************************************************)
C3_OrderOnlyAfterApproval ==
  /\ [](\A c \in CycleIds :
          cyc[c].pc \in {"open", "balance"} =>
            /\ cyc[c].riskCheck.allowed
            /\ cyc[c].riskCheck.side = SideOf(cyc[c].action)
            /\ cyc[c].riskCheck.size = cyc[c].size
            /\ cyc[c].orders = 1)
  /\ [][\A c \in CycleIds :
          /\ cyc'[c].orders > cyc[c].orders =>
               /\ cyc[c].pc = "gate"
               /\ GateApproves(c)
               /\ cyc'[c].action = cyc[c].action
               /\ cyc'[c].size = cyc[c].size
          /\ (cyc[c].pc = "gate" /\ ~GateApproves(c)) =>
               /\ cyc'[c].orders = 0
               /\ cyc'[c].pc \in {"gate", "done", "killed"}]_vars

C3_Witness ==
  \E c \in CycleIds :
    /\ cyc[c].pc = "open"
    /\ cyc[c].riskCheck.allowed
    /\ cyc[c].riskCheck.size = cyc[c].size

(***************************************************************************)
(* C4.  At most one decision cycle is in progress at any time.             *)
(***************************************************************************)
C4_AtMostOneCycle == Cardinality({c \in CycleIds : InFlight(c)}) <= 1

(***************************************************************************)
(* C5.  Once stop has completed no decision cycle is executing, and no     *)
(* cycle was cut off before it ran to completion.                          *)
(***************************************************************************)
C5_StopWaitsForCycle ==
  /\ StopCompleted => \A c \in CycleIds : ~InFlight(c)
  /\ \A c \in CycleIds : cyc[c].pc # "killed"

(***************************************************************************)
(* C2.  A getPositions call made while the exchange cannot be reached      *)
(* ends by reporting an error; it answers with no position list.           *)
(***************************************************************************)
C2_UnreachableIsAnError ==
  (lastFetch.called /\ ~lastFetch.reachable) => lastFetch.outcome = "throw"

(***************************************************************************)
(* C6.  The panic command followed within five minutes by the              *)
(* confirm-panic command, each run as its own CLI invocation: the          *)
(* confirmation is executed and no position stays open.                    *)
(***************************************************************************)
C6_DocumentedProcedureCloses ==
  (cli.confirm # "none" /\ cli.confirmAt - cli.panicAt <= PanicTimeoutMinutes)
    => (cli.confirm = "executed" /\ exPositions = {})

(***************************************************************************)
(* C7.  A confirm-panic that has returned: if the request was older than   *)
(* five minutes it was rejected as expired, no close was attempted and the *)
(* request is cleared; otherwise it was executed and the request is        *)
(* cleared.                                                                *)
(***************************************************************************)
C7_ExpiryAndAcceptance ==
  (pan.pc = "idle" /\ pan.calls > 0 /\ pan.age >= 0) =>
    IF pan.age > PanicTimeoutMinutes
    THEN pan.outcome = "expired" /\ pan.attempts = <<>> /\ ~pan.requestAfter
    ELSE pan.outcome = "executed" /\ ~pan.requestAfter

C9_EveryPositionAttempted ==
  /\ Busy => pan.attempts = SubSeq(pan.positions, 1, pan.idx)
  /\ pan.outcome = "executed" =>
       /\ pan.attempts = pan.positions
       /\ Len(pan.results) = Len(pan.positions)
       /\ pan.successCount = CountOf(pan.results, "CLOSED")
       /\ Len(pan.positions) - pan.successCount = CountOf(pan.results, "FAILED")

C9_Witness ==
  /\ pan.outcome = "executed"
  /\ Len(pan.results) = 2
  /\ pan.results[1] = "FAILED"
  /\ pan.results[2] = "CLOSED"

(***************************************************************************)
(* C10.  A confirm-panic that comes when no panic request is stored        *)
(* answers that none was found and changes nothing: no position is closed, *)
(* the running flag and the timers stay, no request appears.               *)
(***************************************************************************)
C10_ConfirmWithoutRequest ==
  [][(pan.pc = "idle" /\ pan'.calls = pan.calls + 1 /\ ~panicRequest.set) =>
       /\ pan'.outcome = "not-found"
       /\ pan'.pc = "idle"
       /\ UNCHANGED <<exPositions, clientPositions, activePositions,
                      isRunning, decisionInterval, commandInterval,
                      panicRequest, balance, dailyLoss>>]_vars

C10_Witness ==
  /\ pan.outcome = "not-found"
  /\ isRunning
  /\ exPositions # {}


(***************************************************************************)
(* C11: a panic request changes nothing but the pending panic request:     *)
(* whichever channel delivers it, the step that handles it does not stop   *)
(* the decision loop, end the agent, or touch a position on the exchange.  *)
(* Here the channel is the .skayn-command file: the listener has handled   *)
(* a 'panic' file when the file is gone or the process has exited.         *)
(***************************************************************************)
C11_PanicOnlyStoresRequest ==
  [][(/\ cmdFile = "panic"
      /\ alive
      /\ commandInterval
      /\ (cmdFile' = "none" \/ ~alive'))
     => /\ alive'
        /\ isRunning' = isRunning
        /\ decisionInterval' = decisionInterval
        /\ exPositions' = exPositions]_vars


(***************************************************************************)
(* Overlapping confirmations.  handleCommand awaits executePanicClose, but *)
(* nothing keeps a second confirm-panic from being handled while the first *)
(* is suspended at one of its awaits: the suspended invocation is parked   *)
(* and the other one runs, and either may be resumed next.                 *)
(***************************************************************************)
Interleave ==
  /\ alive
  /\ pan.pc # "idle" \/ parked.pc # "idle"
  /\ pan' = parked
  /\ parked' = pan
  /\ UNCHANGED <<configVars, analysisVars, exchangeVars, clientVars, riskVars, timerVars,
                 agentVars, now, cmdFile, cyc, cli, lastFetch, lastGate,
                 trades, lastSync,
                 peripheryVars>>

\* The panic command, given while no confirmation is under way, so that the
\* confirmations that follow are about one and the same request.
PanicBetweenConfirms ==
  /\ parked.pc = "idle"
  /\ HandlePanic

NextOverlap ==
  \/ PanicBetweenConfirms
  \/ ConfirmPanic
  \/ PanicFetch
  \/ PanicClose
  \/ PanicCloseBalance
  \/ Interleave

SpecOverlap == InitPanic /\ [][NextOverlap]_vars

(***************************************************************************)
(* C12: a live panic request is consumed by at most one confirmation:      *)
(* while a confirm-panic that passed validation is executing, no second    *)
(* confirm-panic passes validation for the same request, so two accepted   *)
(* invocations of executePanicClose are never under way together.          *)
(***************************************************************************)
C12_OneConfirmationPerRequest ==
  ~(pan.pc # "idle" /\ parked.pc # "idle")


(***************************************************************************)
(* The risk gate on its own.  The repository holds two copies of the       *)
(* RiskManager class: the hypertrading one, whose canOpenPosition runs the *)
(* seven checks, and the one kept beside the moving-average strategy,      *)
(* whose canOpenPosition returns 'Demo mode - all trades allowed' before   *)
(* its first check and before it fetches anything.                         *)
(***************************************************************************)
GateCopies == {"hypertrading", "demo"}

DemoReason == "Demo mode - all trades allowed"

PassedReason == "All risk checks passed"

\* The account and the counters the gate is called with: up to the position
\* limit of positions, balances at and around the thresholds of checks 5 to
\* 7, the daily loss below and at its limit, arguments within and beyond
\* the size and leverage limits.
GateIds == 1..PositionLimit
GateBalances == {0, 1, 4500, 5000}
GatePeaks == {0, 5000}
GateLosses == {0, 0 - (MaxDailyLoss - 1), 0 - MaxDailyLoss}
Quantities == {CalculatePositionSize(DefaultBalance),
               RiskLevelMaxPositionSize * SatsPerBTC + 1}
Leverages == {DefaultLeverage, RiskLevelMaxLeverage + 1}

\* A faulty variant for comparison: the gate counts the agent's mirror.
MirrorList(fetched, mirror) == mirror

\* The list the checks run on is the one getPositions just returned.
GateList(fetched, mirror) == fetched

\* A faulty variant for comparison: a gate whose catch approves.
ApproveOnError(copy, reachable, list, qty, leverage, loss, bal, peak) ==
  IF copy = "demo" THEN DemoReason
  ELSE IF ~reachable THEN PassedReason
  ELSE CanOpenReason(Cardinality(list), qty, leverage, loss, bal, peak,
                     TotalQuantity(list))

\* What canOpenPosition answers: the demo copy always the same, the
\* hypertrading copy 'Risk check error' when its fetch throws and the
\* verdict of its checks otherwise.
GateAnswer(copy, reachable, list, qty, leverage, loss, bal, peak) ==
  IF copy = "demo" THEN DemoReason
  ELSE IF ~reachable THEN "Risk check error"
  ELSE CanOpenReason(Cardinality(list), qty, leverage, loss, bal, peak,
                     TotalQuantity(list))

GateAllows(reason) == reason \in {PassedReason, DemoReason}

\* canOpenPosition(side, quantity, leverage) called directly.
GateCall ==
  \E copy \in GateCopies, ok \in BOOLEAN, qty \in Quantities,
     leverage \in Leverages :
    LET list == GateList(exPositions, activePositions)
        reason == GateAnswer(copy, ok, list, qty, leverage, dailyLoss,
                             balance, peakBalance)
        fetched == copy = "hypertrading" /\ ok
    IN  /\ lastGate' = [called |-> TRUE, copy |-> copy, reachable |-> ok,
                        fetched |-> exPositions, mirror |-> activePositions,
                        quantity |-> qty, leverage |-> leverage,
                        loss |-> dailyLoss, bal |-> balance,
                        peak |-> peakBalance, allowed |-> GateAllows(reason),
                        reason |-> reason]
        /\ clientPositions' = IF fetched THEN exPositions ELSE clientPositions
        /\ peakBalance' =
             IF fetched
             THEN PeakAfterCanOpen(Cardinality(list), qty, leverage, dailyLoss,
                                   balance, peakBalance, TotalQuantity(list))
             ELSE peakBalance
        /\ UNCHANGED <<configVars, analysisVars, exchangeVars, mockPositions, balance,
                       dailyLoss, timerVars, agentVars, now, cmdFile, cyc, pan,
                       cli, lastFetch, parked, trades, lastSync,
                 peripheryVars>>

InitGate ==
  /\ alive = TRUE
  /\ network = "testnet"
  /\ clientImpl = "current"
  /\ exPositions \in SUBSET GateIds
  /\ nextId = PositionLimit + 1
  /\ clientPositions = {}
  /\ mockPositions = {}
  /\ balance \in GateBalances
  /\ dailyLoss \in GateLosses
  /\ peakBalance \in GatePeaks
  /\ isRunning = FALSE
  /\ decisionInterval = FALSE
  /\ commandInterval = FALSE
  /\ initialTimeouts = 0
  /\ moduleTimers = 0
  /\ starts = 0
  /\ lastDecision = NoDecision
  /\ activePositions \in SUBSET GateIds
  /\ totalTrades = 0
  /\ panicRequest = NoRequest
  /\ now = 0
  /\ cmdFile = "none"
  /\ cyc = [c \in CycleIds |-> IdleCycle]
  /\ pan = IdlePanic
  /\ cli = NoCli
  /\ lastFetch = NoFetch
  /\ parked = IdlePanic
  /\ lastGate = NoGate
  /\ trades = <<>>
  /\ lastSync = NoSync
  /\ InitPeriphery

NextGate == GateCall

SpecGate == InitGate /\ [][NextGate]_vars


\* The drawdown from the peak (moved up to the balance first) is strictly
\* below the maximum drawdown percentage.
DrawdownBelowLimit(peak, bal) ==
  LET p == NewPeak(peak, bal)
  IN  p > 0 /\ (p - bal) * 100 < MaxDrawdownPercentage * p

(***************************************************************************)
(* C13: canOpenPosition answers allowed only when all of these hold: the   *)
(* position count is below the position limit, the size is at most the     *)
(* maximum size, the leverage is at most the maximum leverage, the         *)
(* absolute daily loss is below the maximum daily loss, the balance covers *)
(* margin plus risk reserve, the drawdown is below the maximum drawdown    *)
(* percentage, and heat plus this trade's risk is within the heat limit.   *)
(***************************************************************************)
C13_AllowedOnlyWhenAllHold ==
  (lastGate.called /\ lastGate.allowed) =>
     /\ Cardinality(lastGate.fetched) < PositionLimit
     /\ lastGate.quantity <= RiskLevelMaxPositionSize * SatsPerBTC
     /\ lastGate.leverage <= RiskLevelMaxLeverage
     /\ Abs(lastGate.loss) < MaxDailyLoss
     /\ ~InsufficientBalance(lastGate.bal, lastGate.quantity, lastGate.leverage)
     /\ DrawdownBelowLimit(lastGate.peak, lastGate.bal)
     /\ ~HeatExceeded(TotalQuantity(lastGate.fetched), lastGate.bal)


\* The reasons of the seven checks, in the order count, size, leverage,
\* daily loss, balance, drawdown, heat.
CheckReasons ==
  <<"Position limit reached", "Position size exceeds limit",
    "Leverage exceeds limit", "Daily loss limit reached",
    "Insufficient balance", "Drawdown limit exceeded",
    "Portfolio heat limit exceeded">>

\* Whether check i fails on the inputs of the recorded call g.
CheckFails(i, g) ==
  CASE i = 1 -> Cardinality(g.fetched) >= PositionLimit
    [] i = 2 -> g.quantity > RiskLevelMaxPositionSize * SatsPerBTC
    [] i = 3 -> g.leverage > RiskLevelMaxLeverage
    [] i = 4 -> Abs(g.loss) >= MaxDailyLoss
    [] i = 5 -> InsufficientBalance(g.bal, g.quantity, g.leverage)
    [] i = 6 -> DrawdownExceeded(g.peak, g.bal)
    [] OTHER -> HeatExceeded(TotalQuantity(g.fetched), g.bal)

\* The first check from i on that fails, 0 when none does.
RECURSIVE EarliestFailing(_, _)
EarliestFailing(g, i) ==
  IF i > Len(CheckReasons) THEN 0
  ELSE IF CheckFails(i, g) THEN i
  ELSE EarliestFailing(g, i + 1)

(***************************************************************************)
(* C14: canOpenPosition evaluates its checks in the fixed order count,     *)
(* size, leverage, daily loss, balance, drawdown, heat: whenever it got    *)
(* the position list, the reason it returns is the reason of the earliest  *)
(* failing check (or that all checks passed), a function of its inputs.    *)
(***************************************************************************)
C14_EarliestFailingReason ==
  (lastGate.called /\ lastGate.reachable) =>
     LET e == EarliestFailing(lastGate, 1)
     IN  lastGate.reason = IF e = 0 THEN PassedReason ELSE CheckReasons[e]


(***************************************************************************)
(* C15: the gate's answer depends only on the position list it has just    *)
(* fetched from the exchange, the exchange balance and its own counters:   *)
(* had the agent's mirror been any other set of positions, the call would  *)
(* have been answered the same.                                            *)
(***************************************************************************)
C15_AnswerIgnoresMirror ==
  lastGate.called =>
    \A m \in SUBSET GateIds :
      GateAnswer(lastGate.copy, lastGate.reachable,
                 GateList(lastGate.fetched, m), lastGate.quantity,
                 lastGate.leverage, lastGate.loss, lastGate.bal,
                 lastGate.peak) = lastGate.reason

\* The gate allowed a trade while the mirror, unlike the exchange, held as
\* many positions as the limit.
C15_Witness ==
  /\ lastGate.called
  /\ lastGate.copy = "hypertrading"
  /\ lastGate.reachable
  /\ lastGate.reason = PassedReason
  /\ Cardinality(lastGate.mirror) >= PositionLimit
  /\ Cardinality(lastGate.fetched) < PositionLimit


\* The recorded call g answered again with another daily loss, another peak
\* (hence another drawdown) and another total quantity of the open positions
\* (hence another heat), every other input as it was.
AnswerWith(g, loss, peak, totalQty) ==
  IF g.copy = "demo" THEN DemoReason
  ELSE IF ~g.reachable THEN "Risk check error"
  ELSE CanOpenReason(Cardinality(g.fetched), g.quantity, g.leverage, loss,
                     g.bal, peak, totalQty)

\* The total quantities the comparison ranges over.
HeatQuantities == {k * PositionQuantity : k \in 0..(PositionLimit + 1)}

(***************************************************************************)
(* C16: every other input held fixed, a larger daily loss, a larger        *)
(* drawdown or a larger portfolio heat never turns a rejected trade into   *)
(* an allowed one.                                                         *)
(***************************************************************************)
C16_RejectionIsMonotone ==
  (lastGate.called /\ ~lastGate.allowed) =>
    \A loss \in GateLosses, peak \in GatePeaks, totalQty \in HeatQuantities :
      (/\ Abs(loss) >= Abs(lastGate.loss)
       /\ peak >= lastGate.peak
       /\ totalQty >= TotalQuantity(lastGate.fetched))
      => ~GateAllows(AnswerWith(lastGate, loss, peak, totalQty))

\* A trade rejected for its drawdown that would have been allowed had the
\* peak not been above the balance.
C16_Witness ==
  /\ lastGate.called
  /\ lastGate.reason = "Drawdown limit exceeded"
  /\ GateAllows(AnswerWith(lastGate, lastGate.loss, 0,
                           TotalQuantity(lastGate.fetched)))


(***************************************************************************)
(* The position sync on its own: syncPositionTracking called with the list *)
(* the exchange holds, against an exchange on which positions are opened   *)
(* and closed behind the agent's back.                                     *)
(***************************************************************************)
\* What the first loop reports before the sync ends: every closure when
\* recordTrade returns, the first one only when it throws.
DetectedClosed(mirror, fetched) ==
  LET closed == ClosedExternally(mirror, fetched)
  IN  IF SyncThrows(mirror, fetched)
      THEN {CHOOSE x \in closed : \A y \in closed : x <= y}
      ELSE closed

\* The second loop runs only when the first did not throw.
DetectedNew(mirror, fetched) ==
  IF SyncThrows(mirror, fetched) THEN {} ELSE NewPositions(mirror, fetched)

\* The closed trades on the books after the sync: recordTrade would add
\* one per closure, with the latest known price as the exit.
TradesAfterSync(book, mirror, fetched) ==
  IF RecordTradeDefined
  THEN book \o SetToSeq(ClosedExternally(mirror, fetched))
  ELSE book

SyncCall ==
  /\ lastSync.calls < MaxSyncs
  /\ LET fetched == exPositions
     IN  /\ activePositions' = SyncPositionTracking(activePositions, fetched)
         /\ trades' = TradesAfterSync(trades, activePositions, fetched)
         /\ lastSync' = [calls |-> lastSync.calls + 1,
                         before |-> activePositions,
                         fetched |-> fetched,
                         closedExternally |->
                           DetectedClosed(activePositions, fetched),
                         newPositions |-> DetectedNew(activePositions, fetched),
                         threw |-> SyncThrows(activePositions, fetched),
                         repeat |-> lastSync.calls > 0
                                    /\ fetched = lastSync.fetched]
  /\ UNCHANGED <<configVars, analysisVars, exchangeVars, clientVars, riskVars, timerVars,
                 lastDecision, totalTrades, panicRequest, now, cmdFile, cyc,
                 pan, cli, lastFetch, parked, lastGate, peripheryVars>>

\* A position is opened on the exchange by someone else.
ExchangeOpens(id) ==
  /\ id \notin exPositions
  /\ exPositions' = exPositions \cup {id}
  /\ UNCHANGED <<configVars, analysisVars, nextId, clientVars, riskVars, timerVars,
                 agentVars, now, cmdFile, cyc, pan, cli, lastFetch, parked,
                 lastGate, trades, lastSync,
                 peripheryVars>>

InitSync ==
  /\ InitAgent
  /\ clientImpl = "current"
  /\ network = "testnet"
  /\ balance \in Balances
  /\ exPositions \in SUBSET PosIds
  /\ nextId = MaxPos + 1

NextSync ==
  \/ SyncCall
  \/ \E id \in PosIds : ExchangeOpens(id)
  \/ \E id \in PosIds : ExchangeCloses(id)

SpecSync == InitSync /\ [][NextSync]_vars

(***************************************************************************)
(* C17: after every reconciliation the mirror holds exactly the positions  *)
(* of the fresh list, keyed by id: nothing else is kept and nothing is     *)
(* missing.                                                                *)
(***************************************************************************)
C17_MirrorIsFreshList ==
  [][lastSync'.calls > lastSync.calls
     => activePositions' = lastSync'.fetched]_vars

\* A sync that returned, against a list that had grown since the last one.
C17_Witness ==
  /\ lastSync.calls > 0
  /\ ~lastSync.threw
  /\ lastSync.before # {}
  /\ lastSync.newPositions # {}
  /\ activePositions = lastSync.fetched

(***************************************************************************)
(* C18: reconciling twice in a row against the same list reports no newly  *)
(* opened and no externally closed position on the second pass and leaves  *)
(* the mirror unchanged.                                                   *)
(***************************************************************************)
C18_SecondPassIsQuiet ==
  [][(lastSync'.calls > lastSync.calls /\ lastSync'.repeat)
     => /\ lastSync'.closedExternally = {}
        /\ lastSync'.newPositions = {}
        /\ ~lastSync'.threw
        /\ activePositions' = activePositions]_vars

\* A second pass over a list that holds positions.
C18_Witness ==
  /\ lastSync.repeat
  /\ lastSync.fetched # {}
  /\ lastSync.before = lastSync.fetched

(***************************************************************************)
(* C19: every position that is in the mirror before a reconciliation and   *)
(* absent from the fresh list is settled exactly once into the P&L         *)
(* bookkeeping as a closed trade: the reconciliation adds one closed trade *)
(* for it to the books.                                                    *)
(***************************************************************************)
C19_ExternalClosureSettledOnce ==
  [][lastSync'.calls > lastSync.calls
     => \A id \in lastSync'.before \ lastSync'.fetched :
          CountOf(trades', id) = CountOf(trades, id) + 1]_vars


(***************************************************************************)
(* C20: every decision cycle fetches the exchange's position list and      *)
(* reconciles the mirror against it before the strategy is evaluated or    *)
(* an order is placed: no cycle completes without having called for the    *)
(* list, the strategy's signal is taken only by a cycle that has just      *)
(* reconciled, and an order is sent only by a cycle that has reconciled.   *)
(***************************************************************************)
C20_EveryCycleReconcilesFirst ==
  [][\A c \in CycleIds :
       /\ (cyc[c].pc # "done" /\ cyc'[c].pc = "done") => cyc[c].pc # "deposit"
       /\ (cyc[c].pc # "assess" /\ cyc'[c].pc = "assess") =>
            /\ cyc[c].pc = "sync"
            /\ cyc'[c].mirrorWrites = 1
       /\ cyc'[c].orders > cyc[c].orders => cyc[c].mirrorWrites = 1]_vars


(***************************************************************************)
(* The market data manager.  Every source of prices (the exchange's        *)
(* priceUpdate event, the price service's subscription, the live fetch and *)
(* the simulation) hands its sample to handlePriceUpdate, which sets the   *)
(* current price, pushes the sample and shifts the oldest one out once the *)
(* history is longer than maxHistoryLength.  A sample's timestamp is       *)
(* modelled by its arrival number.                                         *)
(***************************************************************************)
Arrivals ==
  IF priceHistory = <<>> THEN 0
  ELSE priceHistory[Len(priceHistory)].timestamp

\* The prices a feed delivers: any first price, then a walk that stays
\* within the simulation's band.
FirstPrices == {115000, 120000}

FeedPrices(prev, k) ==
  IF prev = 0 THEN FirstPrices
  ELSE IF k % 2 = 0 THEN {Min(125000, prev + 100)}
  ELSE {Max(115000, prev - 50)}

\* A faulty variant for comparison: the newest sample is dropped.
DropNewest(history) == SubSeq(history, 1, Len(history) - 1)

Evict(history) == Tail(history)

MaintainLength(history) ==
  IF Len(history) > MaxHistoryLength THEN Evict(history) ELSE history

HandlePriceUpdate(price) ==
  /\ currentPrice' = price
  /\ priceHistory' = MaintainLength(
       Append(priceHistory, [price |-> price, timestamp |-> Arrivals + 1]))

PriceUpdate ==
  /\ Arrivals < MaxArrivals
  /\ \E price \in FeedPrices(currentPrice, Arrivals + 1) :
       HandlePriceUpdate(price)
  /\ UNCHANGED <<configVars, analysisVars, exchangeVars, clientVars, riskVars, timerVars,
                 agentVars, now, cmdFile, cyc, pan, cli, lastFetch, parked,
                 lastGate, trades, lastSync, lastSignal, lastDivergence,
                 priceService, lastCommand>>

InitHistory ==
  /\ InitAgent
  /\ clientImpl = "current"
  /\ network = "testnet"
  /\ balance \in Balances
  /\ exPositions = {}
  /\ nextId = 1

NextHistory == PriceUpdate

SpecHistory == InitHistory /\ [][NextHistory]_vars

(***************************************************************************)
(* C23: after any sequence of price updates the history holds at most      *)
(* 1,000 samples, they are exactly the most recent samples in arrival      *)
(* order, and the latest price is the price of the last appended sample.   *)
(***************************************************************************)
C23_HistoryIsRecentWindow ==
  LET n == Len(priceHistory)
  IN  /\ n <= MaxHistoryLength
      /\ n = Min(Arrivals, MaxHistoryLength)
      /\ \A i \in 1..n : priceHistory[i].timestamp = Arrivals - n + i
      /\ n > 0 => currentPrice = priceHistory[n].price

\* The history is full and its oldest sample has been evicted.
C23_Witness ==
  /\ Len(priceHistory) = MaxHistoryLength
  /\ priceHistory[1].timestamp > 1
  /\ currentPrice = priceHistory[MaxHistoryLength].price


(***************************************************************************)
(* The strategy and the decision made from its signal.  The agent's        *)
(* default strategy is the basic MovingAverageStrategy, whose analyze      *)
(* returns a forced SELL whenever the market data has a current price,     *)
(* before it looks at the indicators; the enhanced strategy holds while    *)
(* it has fewer than 30 samples.  With enough data the indicators decide,  *)
(* which is modelled by any signal.                                        *)
(***************************************************************************)
Strategies == {"basic", "enhanced"}

StrategySignal(strategy, samples, price) ==
  IF strategy = "basic"
  THEN IF price # 0 THEN {"SELL"}
       ELSE IF samples < RequiredSamples THEN {"HOLD"}
       ELSE Actions
  ELSE IF price = 0 \/ samples < RequiredSamples THEN {"HOLD"}
       ELSE Actions

\* balanceUSD < 50, the balance in satoshis and the price in dollars
TestingMode(bal, price) ==
  bal * (price \div 1000) < TestingBalanceUSD * (SatsPerBTC \div 1000)

\* synthesizeDecision: a trading signal is taken as it is.  With a HOLD
\* signal the testing branch decides from the RSI when there are samples
\* enough for one, else from the last price change when there are two
\* samples, else it alternates BUY and SELL; a HOLD signal that gets past
\* it stays HOLD, its confidence being 0.
SynthesizeFrom(signal, samples, price, bal, tradeCount) ==
  IF signal # "HOLD" THEN {signal}
  ELSE IF TestingMode(bal, price) /\ price # 0
          /\ tradeCount < TestingTradeLimit
  THEN IF samples >= RsiPeriod + 1 THEN Actions
       ELSE IF samples >= 2 THEN Actions
       ELSE IF tradeCount % 2 = 0 THEN {"BUY"} ELSE {"SELL"}
  ELSE {"HOLD"}

\* The balances around the testing threshold, and the trade counts around
\* the testing limit.
SignalBalances == {0, 5000, 50000}
SignalTrades == 0..TestingTradeLimit

\* getCurrentStrategy().analyze() and synthesizeDecision, called directly.
Evaluate ==
  /\ \E strategy \in Strategies :
       \E signal \in StrategySignal(strategy, Len(priceHistory), currentPrice) :
         \E decision \in SynthesizeFrom(signal, Len(priceHistory),
                                        currentPrice, balance, totalTrades) :
           lastSignal' = [called |-> TRUE, strategy |-> strategy,
                          samples |-> Len(priceHistory), signal |-> signal,
                          decision |-> decision]
  /\ UNCHANGED <<configVars, analysisVars, exchangeVars, clientVars, riskVars, timerVars,
                 agentVars, now, cmdFile, cyc, pan, cli, lastFetch, parked,
                 lastGate, trades, lastSync, priceHistory, currentPrice,
                 lastDivergence, priceService, lastCommand>>

\* The price updates of a feed that has just been started.
EarlyPriceUpdate ==
  /\ Len(priceHistory) <= RequiredSamples
  /\ PriceUpdate

InitSignal ==
  /\ alive = TRUE
  /\ network = "testnet"
  /\ clientImpl = "current"
  /\ exPositions = {}
  /\ nextId = 1
  /\ clientPositions = {}
  /\ mockPositions = {}
  /\ balance \in SignalBalances
  /\ dailyLoss = 0
  /\ peakBalance = 0
  /\ isRunning = FALSE
  /\ decisionInterval = FALSE
  /\ commandInterval = FALSE
  /\ initialTimeouts = 0
  /\ moduleTimers = 0
  /\ starts = 0
  /\ lastDecision = NoDecision
  /\ activePositions = {}
  /\ totalTrades \in SignalTrades
  /\ panicRequest = NoRequest
  /\ now = 0
  /\ cmdFile = "none"
  /\ cyc = [c \in CycleIds |-> IdleCycle]
  /\ pan = IdlePanic
  /\ cli = NoCli
  /\ lastFetch = NoFetch
  /\ parked = IdlePanic
  /\ lastGate = NoGate
  /\ trades = <<>>
  /\ lastSync = NoSync
  /\ InitPeriphery

NextSignal ==
  \/ EarlyPriceUpdate
  \/ Evaluate

SpecSignal == InitSignal /\ [][NextSignal]_vars

(***************************************************************************)
(* C21: whenever the price history is shorter than the period the active   *)
(* strategy's indicators require, the strategy's signal and the final      *)
(* decision are HOLD; no BUY or SELL comes from insufficient data.         *)
(***************************************************************************)
C21_InsufficientDataHolds ==
  (lastSignal.called /\ lastSignal.samples < RequiredSamples) =>
     /\ lastSignal.signal = "HOLD"
     /\ lastSignal.decision = "HOLD"

(***************************************************************************)
(* Divergence detection of the enhanced strategy: analyzeRSIDivergence and *)
(* analyzeMACDDivergence are the same computation on a price window and an *)
(* oscillator window (the RSI values, or the MACD field of the MACD        *)
(* records).  Indices are zero-based, as in the source.                    *)
(***************************************************************************)
MinOf(values) ==
  CHOOSE v \in {values[i] : i \in DOMAIN values} :
    \A i \in DOMAIN values : v <= values[i]

MaxOf(values) ==
  CHOOSE v \in {values[i] : i \in DOMAIN values} :
    \A i \in DOMAIN values : v >= values[i]

\* Array.prototype.lastIndexOf, zero-based.
LastIndexOf(values, v) ==
  (CHOOSE i \in DOMAIN values :
     /\ values[i] = v
     /\ \A j \in DOMAIN values : values[j] = v => j <= i) - 1

\* values.slice(-Lookback)
Recent(values) ==
  IF Len(values) <= Lookback THEN values
  ELSE SubSeq(values, Len(values) - Lookback + 1, Len(values))

\* values.slice(0, index)
Before(values, index) == SubSeq(values, 1, index)

AnalyzeDivergence(prices, oscillator) ==
  IF Len(prices) < Lookback \/ Len(oscillator) < Lookback THEN "NEUTRAL"
  ELSE
    LET recentPrices == Recent(prices)
        recent       == Recent(oscillator)
        priceHigh == MaxOf(recentPrices)
        priceLow  == MinOf(recentPrices)
        priceHighIndex == LastIndexOf(recentPrices, priceHigh)
        priceLowIndex  == LastIndexOf(recentPrices, priceLow)
        high == MaxOf(recent)
        low  == MinOf(recent)
        highIndex == LastIndexOf(recent, high)
        lowIndex  == LastIndexOf(recent, low)
    IN  IF /\ priceLowIndex > MinExtremumIndex
           /\ lowIndex > MinExtremumIndex
           /\ priceLow < MinOf(Before(recentPrices, priceLowIndex))
           /\ low > MinOf(Before(recent, lowIndex))
        THEN "BUY"
        ELSE IF /\ priceHighIndex > MinExtremumIndex
                /\ highIndex > MinExtremumIndex
                /\ priceHigh > MaxOf(Before(recentPrices, priceHighIndex))
                /\ high < MaxOf(Before(recent, highIndex))
        THEN "SELL"
        ELSE "NEUTRAL"

Analysers == {"rsi", "macd"}

\* The values of a window, and the windows the analysers are given: a flat
\* series with one earlier sample and the last four samples free.
Levels == {1, 2, 3}

Windows ==
  {<<2, 2, a, 2, 2, 2, b, c, d, e>> : a \in Levels, b \in Levels,
                                       c \in Levels, d \in Levels, e \in Levels}

AnalyzeCall ==
  /\ ~lastDivergence.called
  /\ lastDivergence' =
       [lastDivergence EXCEPT
          !.called = TRUE,
          !.type = AnalyzeDivergence(lastDivergence.prices,
                                     lastDivergence.oscillator)]
  /\ UNCHANGED <<coreVars, priceHistory, currentPrice, lastSignal,
                 priceService, lastCommand>>

InitDivergence ==
  /\ InitCore
  /\ clientImpl = "current"
  /\ network = "testnet"
  /\ balance = 0
  /\ exPositions = {}
  /\ nextId = 1
  /\ priceHistory = <<>>
  /\ currentPrice = 0
  /\ lastSignal = NoSignal
  /\ priceService = IdleService
  /\ lastCommand = NoCommand
  /\ InitAnalysis
  /\ \E analyser \in Analysers, prices \in Windows, oscillator \in Windows :
       lastDivergence = [called |-> FALSE, analyser |-> analyser,
                         prices |-> prices, oscillator |-> oscillator,
                         type |-> "none"]

NextDivergence == AnalyzeCall

SpecDivergence == InitDivergence /\ [][NextDivergence]_vars

\* The price sets a new low late in the window: its lowest value lies after
\* the first part of the window and below everything before it.
NewPriceLow(prices) ==
  LET index == LastIndexOf(prices, MinOf(prices))
  IN  index > MinExtremumIndex /\ MinOf(prices) < MinOf(Before(prices, index))

NewPriceHigh(prices) ==
  LET index == LastIndexOf(prices, MaxOf(prices))
  IN  index > MinExtremumIndex /\ MaxOf(prices) > MaxOf(Before(prices, index))

\* The oscillator's low at the price's new low is higher than the lowest
\* value the oscillator had before it.
HigherOscillatorLow(prices, oscillator) ==
  LET index == LastIndexOf(prices, MinOf(prices))
  IN  oscillator[index + 1] > MinOf(Before(oscillator, index))

LowerOscillatorHigh(prices, oscillator) ==
  LET index == LastIndexOf(prices, MaxOf(prices))
  IN  oscillator[index + 1] < MaxOf(Before(oscillator, index))

(***************************************************************************)
(* C22: a window in which the price sets a new low while the oscillator's  *)
(* low is higher than its own prior low is reported as a bullish           *)
(* divergence (BUY), and a window with a new price high and a lower        *)
(* oscillator high, that is not also bullish, as a bearish one (SELL).     *)
(***************************************************************************)
C22_DivergenceReported ==
  lastDivergence.called =>
    LET prices     == Recent(lastDivergence.prices)
        oscillator == Recent(lastDivergence.oscillator)
        bullish == NewPriceLow(prices) /\ HigherOscillatorLow(prices, oscillator)
        bearish == NewPriceHigh(prices) /\ LowerOscillatorHigh(prices, oscillator)
    IN  /\ bullish => lastDivergence.type = "BUY"
        /\ (bearish /\ ~bullish) => lastDivergence.type = "SELL"

(***************************************************************************)
(* handleCommand.  The switch has no try/catch of its own except around    *)
(* switchStrategy in switch-strategy: a command returns its result unless  *)
(* something it awaits throws.  The commands start, stop, force-decision,  *)
(* panic, emergency and confirm-panic hand over to start, stop,            *)
(* makeAutonomousDecision, handlePanicButton and executePanicClose, which  *)
(* are the actions of Spec and SpecPanic; the others are modelled here.    *)
(***************************************************************************)
ImmediateCommands ==
  {"status", "switch-strategy", "compare-strategies", "enable-enhanced",
   "check-balance", "deposit-status", "deposit-instructions",
   "hypertrading-check", "daily-limits", "unknown"}

Commands == ImmediateCommands \cup {"close-all", "create-invoice"}

\* What the call does up to its first await on the exchange.  The deposit
\* manager's methods catch their own failures and read the client's cached
\* balance.
HandleCommand(command) ==
  /\ alive
  /\ lastCommand.pc = "idle"
  /\ lastCommand' =
       IF command \in ImmediateCommands
       THEN [NoCommand EXCEPT !.command = command, !.ended = "returned"]
       ELSE [NoCommand EXCEPT !.command = command, !.ended = "pending",
                              !.pc = IF command = "close-all" THEN "fetch"
                                     ELSE "invoice"]
  /\ UNCHANGED <<coreVars, marketVars, priceService>>

\* close-all: getPositions returns or throws.
CommandFetch ==
  /\ alive
  /\ lastCommand.pc = "fetch"
  /\ \E ok \in BOOLEAN :
       LET out == GetPositionsOutcome(clientImpl, ok)
           got == GetPositionsResult(out, exPositions, mockPositions)
       IN  IF out = "throw"
           THEN /\ lastCommand' = [lastCommand EXCEPT !.pc = "idle",
                                                      !.ended = "raised"]
                /\ UNCHANGED clientPositions
           ELSE /\ clientPositions' = got
                /\ lastCommand' =
                     IF got = {}
                     THEN [lastCommand EXCEPT !.pc = "idle",
                                              !.ended = "returned"]
                     ELSE [lastCommand EXCEPT !.pc = "close", !.idx = 1,
                                              !.positions = SetToSeq(got)]
  /\ UNCHANGED <<configVars, analysisVars, exchangeVars, mockPositions, balance, riskVars,
                 timerVars, agentVars, now, cmdFile, cyc, pan, cli, lastFetch,
                 parked, lastGate, trades, lastSync, marketVars, priceService>>

\* close-all: the trade module's closePosition awaits the client's, which
\* rethrows a failed close; nothing in the loop catches it.
CommandClose ==
  /\ alive
  /\ lastCommand.pc = "close"
  /\ LET id == lastCommand.positions[lastCommand.idx]
     IN  \E ok \in BOOLEAN :
           IF ok /\ id \in clientPositions /\ id \in exPositions
           THEN /\ exPositions' = exPositions \ {id}
                /\ clientPositions' = clientPositions \ {id}
                /\ lastCommand' = [lastCommand EXCEPT !.pc = "closeBalance"]
           ELSE /\ lastCommand' = [lastCommand EXCEPT !.pc = "idle",
                                                      !.ended = "raised"]
                /\ UNCHANGED <<exPositions, clientPositions>>
  /\ UNCHANGED <<configVars, analysisVars, nextId, mockPositions, balance, riskVars,
                 timerVars, agentVars, now, cmdFile, cyc, pan, cli, lastFetch,
                 parked, lastGate, trades, lastSync, marketVars, priceService>>

\* close-all: updateBalance returns, the trade module books the result and
\* drops the position from the mirror; the loop goes on or the call returns.
CommandCloseBalance ==
  /\ alive
  /\ lastCommand.pc = "closeBalance"
  /\ \E b \in Balances, pl \in PLs :
       /\ balance' = b
       /\ dailyLoss' = DailyLossAfter(dailyLoss, pl)
       /\ dailyTrades' = DailyTradesAfter(dailyTrades, pl)
  /\ activePositions' =
       activePositions \ {lastCommand.positions[lastCommand.idx]}
  /\ lastCommand' =
       IF lastCommand.idx < Len(lastCommand.positions)
       THEN [lastCommand EXCEPT !.pc = "close", !.idx = @ + 1]
       ELSE [lastCommand EXCEPT !.pc = "idle", !.ended = "returned"]
  /\ UNCHANGED <<configVars, currentStrategyType, strategyMetrics, signalHistory, lastCall, exchangeVars, clientPositions, mockPositions,
                 peakBalance, timerVars, lastDecision, totalTrades,
                 panicRequest, now, cmdFile, cyc, pan, cli, lastFetch, parked,
                 lastGate, trades, lastSync, marketVars, priceService>>

\* create-invoice: createDepositInvoice catches a failed request and answers
\* success false, which the command returns; on success the command awaits
\* the price service for the amount in dollars.
CommandInvoice ==
  /\ alive
  /\ lastCommand.pc = "invoice"
  /\ \E ok \in BOOLEAN :
       lastCommand' = IF ok THEN [lastCommand EXCEPT !.pc = "price"]
                      ELSE [lastCommand EXCEPT !.pc = "idle",
                                               !.ended = "returned"]
  /\ UNCHANGED <<coreVars, marketVars, priceService>>

\* create-invoice: getBitcoinPrice returns a price, or throws when every
\* price API failed or the service is rate limited without a cached price.
CommandPrice ==
  /\ alive
  /\ lastCommand.pc = "price"
  /\ \E ok \in BOOLEAN :
       lastCommand' = [lastCommand EXCEPT
                         !.pc = "idle",
                         !.ended = IF ok THEN "returned" ELSE "raised"]
  /\ UNCHANGED <<coreVars, marketVars, priceService>>

InitCommand ==
  /\ InitCore
  /\ clientImpl \in {"current", "legacy"}
  /\ network = "testnet"
  /\ balance \in Balances
  /\ exPositions \in SUBSET PosIds
  /\ nextId = MaxPos + 1
  /\ InitPeriphery

NextCommand ==
  \/ \E command \in Commands : HandleCommand(command)
  \/ CommandFetch
  \/ CommandClose
  \/ CommandCloseBalance
  \/ CommandInvoice
  \/ CommandPrice

SpecCommand == InitCommand /\ [][NextCommand]_vars

(***************************************************************************)
(* C24: no call of handleCommand ends by raising: every command, an        *)
(* unknown one and one during which an exchange call fails included, ends  *)
(* by returning a result.                                                  *)
(***************************************************************************)
C24_CommandsNeverRaise == lastCommand.ended # "raised"

(***************************************************************************)
(* C25: when the exchange rejects or times out an order placement, the     *)
(* cycle ends there: the mirror, the client's position maps, the trade     *)
(* counter and the P&L bookkeeping (closed trades, daily loss, drawdown    *)
(* peak) are as they were before the order was sent, the decision is       *)
(* recorded, and the timers that start the next cycle are untouched.  (A   *)
(* cycle whose process exits while the order is pending is not a failed    *)
(* order.)                                                                 *)
(***************************************************************************)
C25_FailedOrderChangesNothing ==
  [][\A c \in CycleIds :
       (/\ cyc[c].pc = "open"
        /\ cyc'[c].pc \notin {"open", "killed"}
        /\ exPositions' = exPositions) =>
          /\ cyc'[c].pc = "done"
          /\ activePositions' = activePositions
          /\ clientPositions' = clientPositions
          /\ mockPositions' = mockPositions
          /\ totalTrades' = totalTrades
          /\ trades' = trades
          /\ dailyLoss' = dailyLoss
          /\ peakBalance' = peakBalance
          /\ lastDecision'.action = cyc[c].action
          /\ isRunning' = isRunning
          /\ decisionInterval' = decisionInterval]_vars

\* The first cycle ended at a failed order (a trade was decided and nothing
\* was counted), and the next cycle has started and fetched the positions.
C25_Witness ==
  /\ cyc[1].pc = "done"
  /\ cyc[2].pc = "assess"
  /\ lastDecision.action \in {"BUY", "SELL"}
  /\ totalTrades = 0
  /\ activePositions = exPositions

(***************************************************************************)
(* PriceService.getBitcoinPrice.  A fresh cache answers at once.  Else     *)
(* canMakeApiCall decides from lastApiCall and apiCallHistory, which       *)
(* recordApiCall writes only after a request has succeeded; a caller that  *)
(* may call sends the Coinbase request and awaits it.  A failed request    *)
(* goes on to Kraken and then CoinGecko (tryBackupAPIs) at once.           *)
(***************************************************************************)
RECURSIVE WithinHour(_, _)
WithinHour(history, t) ==
  IF history = <<>> THEN <<>>
  ELSE IF Head(history) > t - HourSeconds
       THEN <<Head(history)>> \o WithinHour(Tail(history), t)
       ELSE WithinHour(Tail(history), t)

CanMakeApiCall(service, t) ==
  /\ Len(WithinHour(service.apiCallHistory, t)) < MaxCallsPerHour
  /\ t - service.lastApiCall >= MinApiInterval

RecordApiCall(service, t) ==
  [service EXCEPT !.apiCallHistory = Append(@, t), !.lastApiCall = t]

CacheFresh(service, t) ==
  service.cached /\ t - service.cacheTime < CacheMaxAge

\* A request goes out to a price API.
Outbound(service) ==
  [service EXCEPT !.requests = Append(@, service.clock)]

PriceVars == <<coreVars, marketVars, lastCommand>>

PriceTick ==
  /\ priceService.clock < Boot + MaxPriceTicks * TickSeconds
  /\ priceService' = [priceService EXCEPT !.clock = @ + TickSeconds]
  /\ UNCHANGED PriceVars

GetBitcoinPrice(k) ==
  /\ priceService.callers[k].pc = "idle"
  /\ LET t == priceService.clock
         pruned == [priceService EXCEPT
                      !.apiCallHistory = WithinHour(@, t)]
     IN  IF CacheFresh(priceService, t)
         THEN priceService' =
                [priceService EXCEPT !.callers[k].answer = "cache"]
         ELSE IF ~CanMakeApiCall(priceService, t)
         THEN priceService' =
                [pruned EXCEPT !.callers[k].answer =
                   IF priceService.cached THEN "cache" ELSE "throw"]
         ELSE /\ Len(priceService.requests) < MaxRequests
              /\ priceService' =
                   [Outbound(pruned) EXCEPT
                      !.callers[k] = [pc |-> "coinbase", at |-> t,
                                      answer |-> "none"]]
  /\ UNCHANGED PriceVars

\* The Coinbase request returns: the price is cached and the call recorded
\* under the time taken on entry, or the Kraken request goes out.
CoinbaseReturns(k) ==
  /\ priceService.callers[k].pc = "coinbase"
  /\ \E ok \in BOOLEAN :
       IF ok
       THEN priceService' =
              [RecordApiCall(priceService, priceService.callers[k].at) EXCEPT
                 !.cached = TRUE,
                 !.cacheTime = priceService.callers[k].at,
                 !.callers[k].pc = "idle",
                 !.callers[k].answer = "price"]
       ELSE /\ Len(priceService.requests) < MaxRequests
            /\ priceService' =
                 [Outbound(priceService) EXCEPT !.callers[k].pc = "kraken"]
  /\ UNCHANGED PriceVars

\* A backup request returns: the price is cached and the call recorded under
\* the current time, or the next API is tried; when CoinGecko fails too the
\* call throws.
BackupReturns(k) ==
  /\ priceService.callers[k].pc \in {"kraken", "coingecko"}
  /\ \E ok \in BOOLEAN :
       IF ok
       THEN priceService' =
              [RecordApiCall(priceService, priceService.clock) EXCEPT
                 !.cached = TRUE,
                 !.cacheTime = priceService.clock,
                 !.callers[k].pc = "idle",
                 !.callers[k].answer = "price"]
       ELSE IF priceService.callers[k].pc = "kraken"
       THEN /\ Len(priceService.requests) < MaxRequests
            /\ priceService' =
                 [Outbound(priceService) EXCEPT !.callers[k].pc = "coingecko"]
       ELSE priceService' =
              [priceService EXCEPT !.callers[k].pc = "idle",
                                   !.callers[k].answer = "throw"]
  /\ UNCHANGED PriceVars

InitPrice ==
  /\ InitCore
  /\ clientImpl = "current"
  /\ network = "testnet"
  /\ balance \in Balances
  /\ exPositions = {}
  /\ nextId = 1
  /\ InitPeriphery

NextPrice ==
  \/ PriceTick
  \/ \E k \in Callers : GetBitcoinPrice(k)
  \/ \E k \in Callers : CoinbaseReturns(k)
  \/ \E k \in Callers : BackupReturns(k)

SpecPrice == InitPrice /\ [][NextPrice]_vars

(***************************************************************************)
(* C26: any two requests to the external price APIs are at least the       *)
(* minimum interval of 90 seconds apart (and hence at most 50 go out in    *)
(* any hour), whatever fails and however many callers there are.           *)
(***************************************************************************)
C26_RequestsAreSpaced ==
  \A i, j \in DOMAIN priceService.requests :
    i < j => priceService.requests[j] - priceService.requests[i] >= MinApiInterval

\* A decision as synthesizeDecision builds it, with action, confidence,
\* reasons and timestamp; the early returns store an action and a reason only.
FullDecision(decision) ==
  decision.action \in Actions /\ decision.reason = "decision"

(***************************************************************************)
(* C27: every decision cycle that runs to its end has recorded its         *)
(* decision, with action, confidence, reasons and timestamp, as            *)
(* lastDecision when it ends, the cycles that end early or fail included.  *)
(***************************************************************************)
C27_EveryCycleRecordsItsDecision ==
  [][\A c \in CycleIds :
       (cyc[c].pc # "done" /\ cyc'[c].pc = "done") =>
          FullDecision(lastDecision')]_vars

(***************************************************************************)
(* C28: totalTrades goes up by one exactly in the steps in which a         *)
(* position was opened (the trade module has put it in the mirror); a      *)
(* trade the risk gate rejects or the exchange fails leaves it unchanged.  *)
(***************************************************************************)
C28_CountsOpenedPositionsOnly ==
  [][/\ totalTrades' # totalTrades =>
          /\ totalTrades' = totalTrades + 1
          /\ \E c \in CycleIds :
               /\ cyc[c].pc = "balance"
               /\ cyc'[c].pc = "done"
               /\ cyc[c].posId \in activePositions'
     /\ \A c \in CycleIds :
          (cyc[c].pc = "balance" /\ cyc'[c].pc = "done") =>
             totalTrades' = totalTrades + 1]_vars

(***************************************************************************)
(* Decision cycles against an exchange on which positions are also closed  *)
(* by others (a stop loss, a liquidation, a manual close).                 *)
(***************************************************************************)
CycleStep(c) ==
  \/ ForceDecision(c)
  \/ CycleDeposit(c)
  \/ CycleSync(c)
  \/ CycleAssess(c)
  \/ CycleGate(c)
  \/ CycleOpen(c)
  \/ CycleBalance(c)

NextExternal ==
  \/ \E c \in CycleIds : CycleStep(c)
  \/ \E id \in PosIds : ExchangeCloses(id)

SpecExternal == Init /\ [][NextExternal]_vars

(***************************************************************************)
(* C29: a cycle that ends with the position-tracking-failure HOLD leaves   *)
(* the mirror as it was, so that every position it found closed on the     *)
(* exchange is still in the mirror for a later cycle to detect.            *)
(***************************************************************************)
C29_TrackingFailureKeepsMirror ==
  [][\A c \in CycleIds :
       (/\ cyc[c].pc = "sync"
        /\ cyc'[c].pc = "done"
        /\ lastDecision' = DecisionOnSyncFailure) =>
          /\ activePositions' = activePositions
          /\ ClosedExternally(activePositions, exPositions) \subseteq
               activePositions']_vars

(***************************************************************************)
(* Decision cycles while the agent closes its positions itself.  close-all,*)
(* the panic close and the risk monitor's auto-close all go through the    *)
(* trade module's closePosition, which drops the position from the mirror  *)
(* only after the awaits that follow the exchange's answer; the close-all  *)
(* command stands for the three.                                           *)
(***************************************************************************)
NextOwnClose ==
  \/ \E c \in CycleIds : CycleStep(c)
  \/ HandleCommand("close-all")
  \/ CommandFetch
  \/ CommandClose
  \/ CommandCloseBalance

SpecOwnClose == Init /\ [][NextOwnClose]_vars

\* The positions the agent is closing itself: the exchange has closed them
\* for it and the trade module has not yet returned.
ClosingItself ==
  IF lastCommand.pc = "closeBalance"
  THEN {lastCommand.positions[lastCommand.idx]}
  ELSE {}

(***************************************************************************)
(* C30: a reconciliation never detects as externally closed a position     *)
(* that the agent itself is closing, however the close and the decision    *)
(* cycle interleave.                                                       *)
(***************************************************************************)
C30_OwnCloseNotExternal ==
  [][\A c \in CycleIds :
       (cyc[c].pc = "sync" /\ cyc'[c].pc # "sync" /\ ~cyc'[c].fetchFailed) =>
          ClosedExternally(activePositions, exPositions) \cap ClosingItself = {}
    ]_vars

(***************************************************************************)
(* C31: while the agent is stopped no timer starts work (the one-shot      *)
(* first decision begins no cycle), and starting and stopping repeatedly   *)
(* leaves at most one armed timer of each kind.                            *)
(***************************************************************************)
C31_StoppedTimersAreQuiet ==
  [][/\ initialTimeouts' < initialTimeouts => isRunning
     /\ initialTimeouts' <= 1
     /\ moduleTimers' <= 1]_vars

(***************************************************************************)
(* C32: a confirm-panic that has passed the validation of the request      *)
(* returns with the agent not running and the panic request cleared,       *)
(* whether or not the fetch of the positions and the closes succeeded.     *)
(***************************************************************************)
C32_ValidatedConfirmStopsAndClears ==
  [][(pan.pc # "idle" /\ pan'.pc = "idle") =>
       /\ ~isRunning'
       /\ ~panicRequest'.set]_vars


(***************************************************************************)
(* The strategy selector.  switchStrategy accepts the two names the        *)
(* metrics table has; the command line's start command has its own list of *)
(* names and writes the selector directly before it starts the agent.      *)
(***************************************************************************)
MaxSignals == 3

StrategyNames == {"basic", "enhanced", "conservative", "adaptive", "momentum"}

\* The names the start command lets through its two checks.
CliStrategies == {"conservative", "enhanced"}

\* switchStrategy(strategyType), called directly: throws before the
\* assignment for any name but the two.
SwitchStrategy(strategyType) ==
  /\ alive
  /\ IF strategyType \in {"basic", "enhanced"}
     THEN /\ currentStrategyType' = strategyType
          /\ lastCall' = [fn |-> "switchStrategy", arg |-> strategyType,
                          before |-> currentStrategyType, raised |-> FALSE]
     ELSE /\ lastCall' = [fn |-> "switchStrategy", arg |-> strategyType,
                          before |-> currentStrategyType, raised |-> TRUE]
          /\ UNCHANGED currentStrategyType
  /\ UNCHANGED <<configVars, dailyTrades, strategyMetrics, signalHistory,
                 exchangeVars,
                 clientVars, riskVars, timerVars, agentVars, now, cmdFile,
                 cyc, pan, cli, lastFetch, parked, lastGate, trades, lastSync,
                 peripheryVars>>

\* handleCommand('switch-strategy', params): a missing parameter is answered
\* with a failure, a throw of switchStrategy is caught and answered likewise.
HandleSwitchStrategy(strategy) ==
  /\ alive
  /\ IF strategy \in {"basic", "enhanced"}
     THEN currentStrategyType' = strategy
     ELSE UNCHANGED currentStrategyType
  /\ lastCall' = [fn |-> "handleCommand", arg |-> strategy,
                  before |-> currentStrategyType, raised |-> FALSE]
  /\ UNCHANGED <<configVars, dailyTrades, strategyMetrics, signalHistory,
                 exchangeVars,
                 clientVars, riskVars, timerVars, agentVars, now, cmdFile,
                 cyc, pan, cli, lastFetch, parked, lastGate, trades, lastSync,
                 peripheryVars>>

\* commands.start(strategy) of the command line: without a name it lists
\* the options, it refuses a name outside its own list and the placeholder
\* 'adaptive', and for the rest it assigns the selector and starts the agent.
CliStart(strategy) ==
  /\ alive
  /\ ~isRunning
  /\ starts < MaxStarts
  /\ pan.pc = "idle"
  /\ lastCall' = [fn |-> "commands.start", arg |-> strategy,
                  before |-> currentStrategyType, raised |-> FALSE]
  /\ IF strategy \in CliStrategies
     THEN /\ currentStrategyType' = strategy
          /\ isRunning' = TRUE
          /\ decisionInterval' = TRUE
          /\ initialTimeouts' = initialTimeouts + 1
          /\ moduleTimers' = moduleTimers + 1
          /\ commandInterval' = TRUE
          /\ starts' = starts + 1
     ELSE UNCHANGED <<currentStrategyType, timerVars>>
  /\ UNCHANGED <<configVars, dailyTrades, strategyMetrics, signalHistory,
                 exchangeVars,
                 clientVars, riskVars, agentVars, now, cmdFile,
                 cyc, pan, cli, lastFetch, parked, lastGate, trades, lastSync,
                 peripheryVars>>

\* The analysis step of a decision cycle: the current strategy gives its
\* signal and updateStrategyMetrics counts a signal that is not HOLD in the
\* selector's row of the table.  A selector without a row raises a
\* TypeError, which the cycle's catch logs.
UpdateStrategyMetrics(signal) ==
  /\ alive
  /\ IF signal = "HOLD"
     THEN /\ lastCall' = [fn |-> "updateStrategyMetrics", arg |-> signal,
                          before |-> currentStrategyType, raised |-> FALSE]
          /\ UNCHANGED strategyMetrics
     ELSE IF currentStrategyType \in DOMAIN strategyMetrics
     THEN /\ strategyMetrics[currentStrategyType] < MaxSignals
          /\ strategyMetrics' =
               [strategyMetrics EXCEPT ![currentStrategyType] = @ + 1]
          /\ lastCall' = [fn |-> "updateStrategyMetrics", arg |-> signal,
                          before |-> currentStrategyType, raised |-> FALSE]
     ELSE /\ lastCall' = [fn |-> "updateStrategyMetrics", arg |-> signal,
                          before |-> currentStrategyType, raised |-> TRUE]
          /\ UNCHANGED strategyMetrics
  /\ UNCHANGED <<configVars, currentStrategyType, dailyTrades, signalHistory,
                 exchangeVars,
                 clientVars, riskVars, timerVars, agentVars, now, cmdFile,
                 cyc, pan, cli, lastFetch, parked, lastGate, trades, lastSync,
                 peripheryVars>>

NextStrategy ==
  \/ \E strategyType \in StrategyNames : SwitchStrategy(strategyType)
  \/ \E strategy \in StrategyNames \cup {"none"} : HandleSwitchStrategy(strategy)
  \/ \E strategy \in StrategyNames \cup {"none"} : CliStart(strategy)
  \/ \E signal \in Actions : UpdateStrategyMetrics(signal)

SpecStrategy == Init /\ [][NextStrategy]_vars

\* C33: the strategy selector is always one of basic and enhanced, and no
\* cycle's strategy-metrics update fails for want of the selected
\* strategy's row.
C33_SelectorIsBasicOrEnhanced ==
  /\ currentStrategyType \in {"basic", "enhanced"}
  /\ lastCall.fn = "updateStrategyMetrics" => ~lastCall.raised

\* The part of C33 about switchStrategy and the switch-strategy command: a
\* name other than the two is rejected and the selector keeps its value.
RejectedSwitchKeepsSelector ==
  [][\A name \in (StrategyNames \cup {"none"}) \ {"basic", "enhanced"} :
       (SwitchStrategy(name) \/ HandleSwitchStrategy(name)) =>
         currentStrategyType' = currentStrategyType]_vars


\* C34: when the hypertrading gate cannot obtain the exchange's position
\* list, or its evaluation fails otherwise, its answer is a rejection
\* (allowed = false, 'Risk check error'), whatever the account, the counters
\* and the arguments are, and its peak balance is left as it was.
C34_GateFailureRejects ==
  (lastGate.called /\ lastGate.copy = "hypertrading" /\ ~lastGate.reachable) =>
    /\ ~lastGate.allowed
    /\ lastGate.reason = "Risk check error"
    /\ peakBalance = lastGate.peak

\* A failed evaluation on an account and with arguments that pass all seven
\* checks when the list is obtained.
C34_Witness ==
  /\ lastGate.called
  /\ lastGate.copy = "hypertrading"
  /\ ~lastGate.reachable
  /\ ~lastGate.allowed
  /\ CanOpenReason(Cardinality(lastGate.fetched), lastGate.quantity,
                   lastGate.leverage, lastGate.loss, lastGate.bal,
                   lastGate.peak, TotalQuantity(lastGate.fetched)) = PassedReason


(***************************************************************************)
(* RiskManager.calculatePositionSize(balance, riskPercentage) called       *)
(* directly, in both copies.  The hypertrading copy works in USD (held     *)
(* here in millionths of a dollar) at the default price and returns BTC;   *)
(* the copy beside the strategies works on the balance as it is and        *)
(* returns a whole number.                                                 *)
(***************************************************************************)
MinOrderSize == 1
ConfigMaxLeverage == 2
MicroUSD == 1000000

\* Balances in satoshis, risk percentages (0 stands for an omitted one as
\* well: both take the configured default), and values of MAX_POSITION_SIZE.
SizingBalances == {0, 1000, 50000, 500000}
RiskPercentages == {0, 1, 2, 3}
MaxPositionSizes == {2, 8, 100}

\* riskPercentage || this.config.riskPerTrade
RiskOf(riskPercentage) ==
  IF riskPercentage = 0 THEN RiskPerTrade ELSE riskPercentage

\* The hypertrading copy's positionUSD, in millionths of a dollar.
PositionUSD(bal, riskPercentage, maxPositionUSD) ==
  LET balanceMicroUSD == bal * (DefaultPrice \div 100)
      riskMicroUSD == (balanceMicroUSD * RiskOf(riskPercentage)) \div 100
  IN  Max(MinPositionUSD * MicroUSD, Min(riskMicroUSD, maxPositionUSD * MicroUSD))

\* The other copy's result: floor(min(riskAmount * maxLeverage, max)).
LeveragedPositionSize(bal, riskPercentage, maxPositionSize) ==
  Min((bal * RiskOf(riskPercentage) * ConfigMaxLeverage) \div 100,
      maxPositionSize)

NoSizing(copy, bal, riskPercentage, maxPositionSize) ==
  [fn |-> "calculatePositionSize", called |-> FALSE, copy |-> copy,
   balance |-> bal, riskPercentage |-> riskPercentage,
   maxPositionSize |-> maxPositionSize, size |-> 0, lower |-> 0, upper |-> 0]

SizingCall ==
  /\ lastCall.fn = "calculatePositionSize"
  /\ ~lastCall.called
  /\ lastCall' =
       IF lastCall.copy = "hypertrading"
       THEN [lastCall EXCEPT
               !.called = TRUE,
               !.size = PositionUSD(lastCall.balance, lastCall.riskPercentage,
                                    lastCall.maxPositionSize),
               !.lower = MinPositionUSD * MicroUSD,
               !.upper = lastCall.maxPositionSize * MicroUSD]
       ELSE [lastCall EXCEPT
               !.called = TRUE,
               !.size = LeveragedPositionSize(lastCall.balance,
                                              lastCall.riskPercentage,
                                              lastCall.maxPositionSize),
               !.lower = MinOrderSize,
               !.upper = lastCall.maxPositionSize]
  /\ UNCHANGED <<stateVars, currentStrategyType, dailyTrades, strategyMetrics,
                 signalHistory>>

InitSizing ==
  /\ InitCore
  /\ network = "testnet"
  /\ clientImpl = "current"
  /\ balance = 0
  /\ exPositions = {}
  /\ nextId = 1
  /\ priceHistory = <<>>
  /\ currentPrice = 0
  /\ lastSignal = NoSignal
  /\ lastDivergence = NoDivergence
  /\ priceService = IdleService
  /\ lastCommand = NoCommand
  /\ currentStrategyType = "basic"
  /\ dailyTrades = 0
  /\ strategyMetrics = [basic |-> 0, enhanced |-> 0]
  /\ signalHistory = <<>>
  /\ \E copy \in GateCopies, bal \in SizingBalances,
        riskPercentage \in RiskPercentages,
        maxPositionSize \in MaxPositionSizes :
       lastCall = NoSizing(copy, bal, riskPercentage, maxPositionSize)

NextSizing == SizingCall

SpecSizing == InitSizing /\ [][NextSizing]_vars

\* C35: the position size computed for a trade, in the quote currency, is
\* never below the configured minimum trade size and never above the
\* configured maximum position size, for every balance and risk percentage.
C35_SizeWithinMinAndMax ==
  (lastCall.fn = "calculatePositionSize" /\ lastCall.called) =>
    /\ lastCall.size >= lastCall.lower
    /\ lastCall.size <= lastCall.upper

\* The same for the hypertrading copy alone, with a maximum that is not
\* below the copy's six-dollar minimum.
SizeWithinBoundsWhenMaxAboveMin ==
  (/\ lastCall.fn = "calculatePositionSize"
   /\ lastCall.called
   /\ lastCall.copy = "hypertrading"
   /\ lastCall.maxPositionSize >= MinPositionUSD) =>
    /\ lastCall.size >= lastCall.lower
    /\ lastCall.size <= lastCall.upper


(***************************************************************************)
(* The risk manager's daily counters.  updateTradeResult adds a losing     *)
(* trade's result to dailyLoss and counts every trade with a non-zero      *)
(* result; resetDailyLimits sets both to zero.  Nothing in the repository  *)
(* calls resetDailyLimits, so it appears here as a direct call only.       *)
(***************************************************************************)
MaxDailyTrades == 3

TradeResults == PLs \cup {0}

\* updateTradeResult(trade), called directly.
UpdateTradeResult(pl) ==
  /\ alive
  /\ dailyTrades < MaxDailyTrades
  /\ dailyLoss' = DailyLossAfter(dailyLoss, pl)
  /\ dailyTrades' = DailyTradesAfter(dailyTrades, pl)
  /\ lastCall' = [fn |-> "updateTradeResult", pl |-> pl, lossBefore |-> dailyLoss,
                  tradesBefore |-> dailyTrades]
  /\ UNCHANGED <<configVars, currentStrategyType, strategyMetrics,
                 signalHistory, exchangeVars, clientVars, peakBalance, timerVars, agentVars,
                 now, cmdFile, cyc, pan, cli, lastFetch, parked, lastGate,
                 trades, lastSync, peripheryVars>>

\* resetDailyLimits()
ResetDailyLimits ==
  /\ alive
  /\ dailyLoss' = 0
  /\ dailyTrades' = 0
  /\ lastCall' = [fn |-> "resetDailyLimits", pl |-> 0, lossBefore |-> dailyLoss,
                  tradesBefore |-> dailyTrades]
  /\ UNCHANGED <<configVars, currentStrategyType, strategyMetrics,
                 signalHistory, exchangeVars, clientVars, peakBalance, timerVars, agentVars,
                 now, cmdFile, cyc, pan, cli, lastFetch, parked, lastGate,
                 trades, lastSync, peripheryVars>>

NextDaily ==
  \/ \E pl \in TradeResults : UpdateTradeResult(pl)
  \/ ResetDailyLimits
  \/ \E command \in Commands : HandleCommand(command)
  \/ CommandFetch
  \/ CommandClose
  \/ CommandCloseBalance
  \/ CommandInvoice
  \/ CommandPrice

SpecDaily == InitCommand /\ [][NextDaily]_vars

\* C36: the daily loss and the daily trade count return to zero only
\* through resetDailyLimits; in every other step the daily loss stays or
\* moves further into loss and the trade count does not go down.
C36_DailyCountersResetOnlyByReset ==
  [][\/ ResetDailyLimits
     \/ /\ dailyLoss' <= dailyLoss
        /\ dailyTrades' >= dailyTrades]_vars

\* A profitable trade was booked after a losing one, through the close-all
\* command or directly, and the loss of the day is still there.
C36_Witness ==
  /\ dailyLoss < 0
  /\ dailyTrades >= 2
  /\ \/ lastCall.fn = "updateTradeResult" /\ lastCall.pl > 0
        /\ lastCall.lossBefore < 0
     \/ lastCommand.command = "close-all" /\ lastCommand.idx = 2
        /\ lastCommand.ended = "returned" /\ dailyLoss > 2 * (0 - 30)


(***************************************************************************)
(* EnhancedTradingStrategy: the risk filters applied to the combined       *)
(* signal and the signal history they consult.  Confidence is held in      *)
(* percent, the recent performance in thousandths.  analyze() pushes the   *)
(* filtered signal with a timestamp and the indicators; nothing in the     *)
(* repository ever gives a history entry a performance.                    *)
(***************************************************************************)
MaxHistory == 6
PerformanceWindow == 5
NeutralPerformance == 500
PoorPerformance == 300

Confidences == {50, 90}
Trends == {"SIDEWAYS", "BULLISH"}

Successful(entry) == entry.performance # "none" /\ entry.performance > 0

Negative(entry) == entry.performance # "none" /\ entry.performance < 0

CountIn(history, Test(_)) ==
  Cardinality({i \in 1..Len(history) : Test(history[i])})

Trailing(history, count) ==
  SubSeq(history, Len(history) - count + 1, Len(history))

\* getRecentSignalPerformance(count)
GetRecentSignalPerformance(history, count) ==
  IF Len(history) < count THEN NeutralPerformance
  ELSE (CountIn(Trailing(history, count), Successful) * 1000) \div count

\* applyAdvancedRiskFilters(signal, indicators): the volatility filter, the
\* market structure filter, the recent performance filter, in this order.
ApplyAdvancedRiskFilters(action, confidence, volatile, trend, history) ==
  IF volatile /\ confidence < 80
  THEN [action |-> "HOLD", confidence |-> (confidence * 60) \div 100,
        filter |-> "volatility"]
  ELSE IF trend = "SIDEWAYS" /\ action # "HOLD"
  THEN [action |-> "HOLD", confidence |-> (confidence * 70) \div 100,
        filter |-> "structure"]
  ELSE IF GetRecentSignalPerformance(history, PerformanceWindow) < PoorPerformance
  THEN [action |-> action, confidence |-> (confidence * 50) \div 100,
        filter |-> "performance"]
  ELSE [action |-> action, confidence |-> confidence, filter |-> "none"]

\* analyze() from the combined signal on: filter, remember, push, return.
EnhancedAnalyze ==
  \E action \in Actions, confidence \in Confidences, volatile \in BOOLEAN,
     trend \in Trends :
    LET filtered == ApplyAdvancedRiskFilters(action, confidence, volatile,
                                             trend, signalHistory)
    IN  /\ Len(signalHistory) < MaxHistory
        /\ lastCall' = [fn |-> "analyze", combined |-> confidence,
                        action |-> filtered.action,
                        confidence |-> filtered.confidence,
                        filter |-> filtered.filter]
        /\ signalHistory' =
             Append(signalHistory,
                    [action |-> filtered.action, performance |-> "none"])
        /\ UNCHANGED <<stateVars, currentStrategyType, dailyTrades,
                       strategyMetrics>>

NextPerformance == EnhancedAnalyze

InitPerformance ==
  /\ InitAgent
  /\ network = "testnet"
  /\ clientImpl = "current"
  /\ balance = 0
  /\ exPositions = {}
  /\ nextId = 1

SpecPerformance == InitPerformance /\ [][NextPerformance]_vars

\* C37: a decision's confidence is reduced for poor recent performance only
\* when a majority of the trailing decisions before it had a negative
\* recorded outcome.
C37_DampenedOnlyAfterLosses ==
  (lastCall.fn = "analyze" /\ lastCall.filter = "performance") =>
    2 * CountIn(Trailing(SubSeq(signalHistory, 1, Len(signalHistory) - 1),
                         PerformanceWindow), Negative) > PerformanceWindow

\* With fewer decisions behind it than the window the filter stays out.
ShortHistoryNotDampened ==
  (lastCall.fn = "analyze" /\ Len(signalHistory) <= PerformanceWindow) =>
    lastCall.filter # "performance"


(***************************************************************************)
(* MarketDataManager's indicators over the price buffer, and the market    *)
(* analysis module that reads them.  An indicator's result is a record:    *)
(* null is [available |-> FALSE], a number is held as an integer (prices   *)
(* in dollars, the volatility in millionths), rounded down.                *)
(***************************************************************************)
MaxSamples == 31
ShortPeriod == 10
LongPeriod == 30
BollingerPeriod == 20
BollingerWidth == 2
VolatilityPeriod == 20
TradingDays == 252
Million == 1000000
SqrtLimit == 20000

Null == [available |-> FALSE, value |-> 0]

Number(n) == [available |-> TRUE, value |-> n]

RECURSIVE SumOf(_)
SumOf(numbers) ==
  IF numbers = <<>> THEN 0 ELSE Head(numbers) + SumOf(Tail(numbers))

PricesOf(history) == [i \in 1..Len(history) |-> history[i].price]

\* slice(-n)
LastOf(numbers, n) ==
  SubSeq(numbers, Max(1, Len(numbers) - n + 1), Len(numbers))

Sqrt(n) == CHOOSE r \in 0..SqrtLimit : r * r <= n /\ (r + 1) * (r + 1) > n

\* calculateSMA(period)
CalculateSMA(history, period) ==
  IF Len(history) < period THEN Null
  ELSE Number(SumOf(LastOf(PricesOf(history), period)) \div period)

RECURSIVE EmaFrom(_, _, _, _)
EmaFrom(prices, i, ema, period) ==
  IF i > Len(prices) THEN ema
  ELSE EmaFrom(prices, i + 1,
               ema + ((prices[i] - ema) * 2) \div (period + 1), period)

\* calculateEMA(period)
CalculateEMA(history, period) ==
  IF Len(history) < period THEN Null
  ELSE LET prices == PricesOf(history)
       IN  Number(EmaFrom(prices, period + 1,
                          SumOf(SubSeq(prices, 1, period)) \div period, period))

\* calculateRSI(period): 100 - 100 / (1 + avgGain / avgLoss), which is
\* 100 * gains / (gains + losses).
CalculateRSI(history, period) ==
  IF Len(history) < period + 1 THEN Null
  ELSE LET prices == PricesOf(history)
           changes == [i \in 1..(Len(prices) - 1) |-> prices[i + 1] - prices[i]]
           gains == SumOf(LastOf([i \in 1..Len(changes) |->
                                    Max(changes[i], 0)], period))
           losses == SumOf(LastOf([i \in 1..Len(changes) |->
                                     Max(0 - changes[i], 0)], period))
       IN  IF losses = 0 THEN Number(100)
           ELSE Number((100 * gains) \div (gains + losses))

\* calculateBollingerBands(period, stdDev): the result is an object or null;
\* its value here is the middle band, its width the distance to each band.
CalculateBollingerBands(history, period, stdDev) ==
  IF Len(history) < period THEN [available |-> FALSE, value |-> 0, width |-> 0]
  ELSE LET sma == CalculateSMA(history, period).value
           prices == LastOf(PricesOf(history), period)
           variance == SumOf([i \in 1..Len(prices) |->
                                (prices[i] - sma) * (prices[i] - sma)]) \div period
       IN  [available |-> TRUE, value |-> sma, width |-> Sqrt(variance) * stdDev]

\* getVolatility(period): the standard deviation of the last returns, times
\* the square root of 252.
GetVolatility(history, period) ==
  IF Len(history) < period THEN Null
  ELSE LET prices == LastOf(PricesOf(history), period + 1)
           returns == [i \in 1..(Len(prices) - 1) |->
                         ((prices[i + 1] - prices[i]) * Million) \div prices[i]]
           mean == SumOf(returns) \div Len(returns)
           variance == SumOf([i \in 1..Len(returns) |->
                                (returns[i] - mean) * (returns[i] - mean)])
                         \div Len(returns)
       IN  Number(Sqrt(variance * TradingDays))

\* !x for a number or null
Falsy(x) == ~x.available \/ x.value = 0

\* getTrend(shortPeriod, longPeriod): the difference of the two averages in
\* percent of the long one, compared with 1 and -1 on the exact sums.
GetTrend(history, shortPeriod, longPeriod) ==
  IF Falsy(CalculateSMA(history, shortPeriod))
     \/ Falsy(CalculateSMA(history, longPeriod))
  THEN "NEUTRAL"
  ELSE LET prices == PricesOf(history)
           short == SumOf(LastOf(prices, shortPeriod)) * longPeriod
           long == SumOf(LastOf(prices, longPeriod)) * shortPeriod
       IN  IF (short - long) * 100 > long THEN "BULLISH"
           ELSE IF (short - long) * 100 < 0 - long THEN "BEARISH"
           ELSE "NEUTRAL"

\* getMarketMetrics()
GetMarketMetrics(history) ==
  [sma10 |-> CalculateSMA(history, ShortPeriod),
   sma30 |-> CalculateSMA(history, LongPeriod),
   ema10 |-> CalculateEMA(history, ShortPeriod),
   ema30 |-> CalculateEMA(history, LongPeriod),
   rsi |-> CalculateRSI(history, RsiPeriod),
   bollingerBands |-> CalculateBollingerBands(history, BollingerPeriod,
                                              BollingerWidth),
   volatility |-> GetVolatility(history, VolatilityPeriod),
   trend |-> GetTrend(history, ShortPeriod, LongPeriod),
   priceHistoryLength |-> Len(history)]

\* x || 0
OrZero(x) == IF Falsy(x) THEN Number(0) ELSE x

\* The feeds of this section: a flat one, a rising one and a falling one,
\* told apart by the first price.
TrendFeed(history) ==
  IF history = <<>> THEN {100000, 115000, 125000}
  ELSE LET first == history[1].price
           prev == history[Len(history)].price
       IN  IF first = 115000 THEN {prev + 500}
           ELSE IF first = 125000 THEN {prev - 400}
           ELSE {prev}

SamplePriceUpdate ==
  /\ Len(priceHistory) < MaxSamples
  /\ \E price \in TrendFeed(priceHistory) : HandlePriceUpdate(price)
  /\ UNCHANGED <<coreVars, lastSignal, lastDivergence, priceService,
                 lastCommand>>

\* modules.marketAnalysis.analyze(): the first step of a decision cycle.
MarketAnalysis ==
  LET metrics == GetMarketMetrics(priceHistory)
      volatility == OrZero(metrics.volatility)
  IN  /\ lastCall' =
           [fn |-> "marketAnalysis.analyze",
            marketHealth |-> IF volatility.value > Million \div 2
                             THEN "VOLATILE" ELSE "GOOD",
            confidence |-> IF volatility.value > Million \div 2
                           THEN 50 ELSE 80,
            volatility |-> volatility,
            trend |-> metrics.trend,
            metrics |-> metrics]
      /\ UNCHANGED <<stateVars, currentStrategyType, dailyTrades,
                     strategyMetrics, signalHistory>>

NextIndicators ==
  \/ SamplePriceUpdate
  \/ MarketAnalysis

SpecIndicators == InitPerformance /\ [][NextIndicators]_vars

\* Each indicator is unavailable when the buffer held fewer samples than
\* its own guard asks for, and the trend is NEUTRAL when an average is
\* missing.
IndicatorsUnavailableWhenShort ==
  lastCall.fn = "marketAnalysis.analyze" =>
    LET m == lastCall.metrics
        n == m.priceHistoryLength
    IN  /\ n < ShortPeriod => ~m.sma10.available /\ ~m.ema10.available
        /\ n < LongPeriod => ~m.sma30.available /\ ~m.ema30.available
        /\ n < RsiPeriod + 1 => ~m.rsi.available
        /\ n < BollingerPeriod => ~m.bollingerBands.available
        /\ n < VolatilityPeriod => ~m.volatility.available
        /\ n < LongPeriod => m.trend = "NEUTRAL"

\* C38: with fewer samples than an indicator needs the indicator is
\* unavailable (neither a number nor an error), the trend is NEUTRAL, and
\* the caller does not take an unavailable indicator to be zero.
C38_UnavailableNeverZero ==
  /\ IndicatorsUnavailableWhenShort
  /\ lastCall.fn = "marketAnalysis.analyze" =>
       (~lastCall.metrics.volatility.available => ~lastCall.volatility.available)


(***************************************************************************)
(* combineSignals of both strategies: the rules' signals are added up per  *)
(* side, each with weight * (strength || 1).  Weights and strengths are    *)
(* held in percent, so a total is in ten-thousandths.                      *)
(***************************************************************************)
MaxRules == 2
BasicThreshold == 1000
EnhancedThreshold == 1500
FullStrength == 100

Rules == [signal : Actions, weight : {20, 40}, strength : {0, 50, FullStrength}]

RuleLists == [1..MaxRules -> Rules]

\* signal.weight * (signal.strength || 1)
AdjustedWeight(rule) ==
  rule.weight * (IF rule.strength = 0 THEN FullStrength ELSE rule.strength)

\* The total the forEach accumulates for one side.
SideWeight(rules, side) ==
  SumOf([i \in 1..Len(rules) |->
           IF rules[i].signal = side THEN AdjustedWeight(rules[i]) ELSE 0])

\* combineSignals(signals): the basic strategy ignores HOLD signals and
\* asks for a net of more than 0.1, the enhanced one adds a tenth of the
\* HOLD weight to the confidence and asks for more than 0.15.
CombineSignals(strategy, rules) ==
  LET buyWeight == SideWeight(rules, "BUY")
      sellWeight == SideWeight(rules, "SELL")
      holdWeight == SideWeight(rules, "HOLD")
      netSignal == buyWeight - sellWeight
      threshold == IF strategy = "basic" THEN BasicThreshold
                   ELSE EnhancedThreshold
      confidence == IF strategy = "basic" THEN Min(Abs(netSignal), 10000)
                    ELSE Min(Abs(netSignal) + holdWeight \div 10, 10000)
  IN  [buyWeight |-> buyWeight, sellWeight |-> sellWeight,
       action |-> IF netSignal > threshold THEN "BUY"
                  ELSE IF netSignal < 0 - threshold THEN "SELL"
                  ELSE "HOLD",
       confidence |-> confidence]

NoCombine(strategy, rules) ==
  [fn |-> "combineSignals", called |-> FALSE, strategy |-> strategy,
   signals |-> rules, result |-> CombineSignals(strategy, <<>>)]

CombineCall ==
  /\ lastCall.fn = "combineSignals"
  /\ ~lastCall.called
  /\ lastCall' = [lastCall EXCEPT
                    !.called = TRUE,
                    !.result = CombineSignals(lastCall.strategy,
                                              lastCall.signals)]
  /\ UNCHANGED <<stateVars, currentStrategyType, dailyTrades,
                 strategyMetrics, signalHistory>>

InitCombine ==
  /\ InitCore
  /\ priceHistory = <<>>
  /\ currentPrice = 0
  /\ lastSignal = NoSignal
  /\ lastDivergence = NoDivergence
  /\ priceService = IdleService
  /\ lastCommand = NoCommand
  /\ currentStrategyType = "basic"
  /\ dailyTrades = 0
  /\ strategyMetrics = [basic |-> 0, enhanced |-> 0]
  /\ signalHistory = <<>>
  /\ \E strategy \in Strategies, rules \in RuleLists :
       lastCall = NoCombine(strategy, rules)
  /\ network = "testnet"
  /\ clientImpl = "current"
  /\ balance = 0
  /\ exPositions = {}
  /\ nextId = 1

NextCombine == CombineCall

SpecCombine == InitCombine /\ [][NextCombine]_vars

\* weight * strength of the rules on one side, in ten-thousandths.
WeightTimesStrength(rules, side) ==
  SumOf([i \in 1..Len(rules) |->
           IF rules[i].signal = side
           THEN rules[i].weight * rules[i].strength ELSE 0])

\* C39: the BUY total and the SELL total are the sums of weight times
\* strength of the rules on that side, a rule of strength zero included.
C39_ContributionIsWeightTimesStrength ==
  (lastCall.fn = "combineSignals" /\ lastCall.called) =>
    /\ lastCall.result.buyWeight = WeightTimesStrength(lastCall.signals, "BUY")
    /\ lastCall.result.sellWeight = WeightTimesStrength(lastCall.signals, "SELL")

\* The same for rule lists without a strength of zero.
NonZeroStrengthsWeighted ==
  (/\ lastCall.fn = "combineSignals"
   /\ lastCall.called
   /\ \A i \in 1..Len(lastCall.signals) : lastCall.signals[i].strength # 0) =>
    /\ lastCall.result.buyWeight = WeightTimesStrength(lastCall.signals, "BUY")
    /\ lastCall.result.sellWeight = WeightTimesStrength(lastCall.signals, "SELL")

=============================================================================
